---- MODULE Spec2Model ----
(***************************************************************************)
(* VolGuard: a state-machine model of the trading pipeline.                *)
(*                                                                         *)
(*   SpecExec  ExecutionEngine.execute_strategy (core/execution.py):       *)
(*             hedge phase, core phase, per-leg workers, flatten, and the  *)
(*             broker the orders live at.                                  *)
(*   SpecOrch  the /api/orders/execute-strategy request: RiskManager       *)
(*             validation followed by OrderOrchestrator.execute_strategy.  *)
(*   SpecExit  the same request followed by /api/orders/exit-trade.        *)
(*   SpecCB    CircuitBreaker (core/risk.py) over its key/value store.     *)
(*   SpecValidate  RiskManager.validate_trade, check by check.             *)
(*   SpecVeto  RiskManager._check_veto_events over the economic calendar.  *)
(*   SpecLimits  the daily-trade and capital limits over the trades table. *)
(*   SpecFlatten  ExecutionEngine._flatten_legs, order by order.           *)
(*   SpecPlace  ExecutionEngine.place_order, attempt by attempt.           *)
(*   SpecSlippage  slippage reporting of accepted fills.                   *)
(*   SpecSlipDay  the slippage events of a day and the breaker.            *)
(*   SpecSession  SessionManager and its calling threads.                  *)
(*   SpecGreeks  LiveGreeksManager's cache and its readers.                *)
(*   SpecSubscriptions  the greeks stream and update_subscriptions.        *)
(*   SpecRegime  RegimeEngine's weights, scores and mandate.               *)
(*   SpecBuild  StrategyFactory.generate, StrategyBuilder.build_strategy.  *)
(*   SpecExitLegs  exit_strategy leg by leg, for two callers.              *)
(*   SpecBreaker  RiskManager's circuit breaker over instances and store.  *)
(*                                                                         *)
(* Every action leaves the variables of the other parts unchanged.         *)
(***************************************************************************)
EXTENDS Integers, Sequences, FiniteSets, TLC

VARIABLES
    \* ---- ExecutionEngine.execute_strategy ----
    mainPc,          \* position of the calling thread in execute_strategy
    retVal,          \* value the pending return statement carries
    returned,        \* what execute_strategy gave back ("none" while running)
    hedge_results,   \* list of hedge legs whose worker returned a leg
    core_results,    \* list of core legs whose worker returned a leg
    consumed,        \* futures as_completed has already yielded
    flatList,        \* argument of the running _flatten_legs call
    flatIdx,         \* index of the leg _flatten_legs is working on
    flatRet,         \* where execute_strategy continues after _flatten_legs
    flatFailed,      \* legs for which the FAILED_EXIT risk event was logged
    wpc,             \* per leg: position of its _execute_leg_atomic worker
    wres,            \* per leg: outcome of the worker (future.result())
    wlog,            \* per leg: status the worker logged with db_writer.log_order
    leg_filled_qty,  \* per leg: leg['filled_qty'] (0 when never set)
    ordStatus,       \* broker: status of the leg's entry order
    ordFilled,       \* broker: filled quantity of the leg's entry order
    reversed,        \* broker: quantity bought/sold back by filled reversing orders
    preflight,       \* outcome of the pre-flight checks, with the input when one failed
    \* ---- /api/orders/execute-strategy: RiskManager + OrderOrchestrator ----
    clock,           \* datetime.now(), in ticks
    state_cb,        \* system_state row 'circuit_breaker_active' ("none" = no row)
    trades,          \* trades table: trade_id -> status ("none" = no row)
    trade_legs,      \* trade_legs table: trade_id -> saved legs
    reqPc,           \* position of the request being served
    nreq,            \* execute-strategy requests received
    rm_active,       \* RiskManager.circuit_breaker_active of the request's instance
    req_trade_id,    \* trade_id generated for the request
    legIdx,          \* index i of the leg loop
    executed_legs,   \* executed_legs of OrderOrchestrator.execute_strategy
    exposure,        \* broker: legs of the current call filled and not reversed
    last_ret,        \* what the last OrderOrchestrator.execute_strategy returned
    exit_call,       \* last exit_strategy call: <<trade_id, returned, orders placed>>
    \* ---- CircuitBreaker (core/risk.py) ----
    consecutive_losses,     \* self.consecutive_losses
    peak_capital,           \* self.peak_capital
    breaker_triggered,      \* self.breaker_triggered
    breaker_until,          \* self.breaker_until (None when unset)
    current_capital,        \* self.current_capital
    daily_slippage_events,  \* self.daily_slippage_events
    last_reset_date,        \* self.last_reset_date (day number)
    store,                  \* system_state rows the breaker reads and writes
    now,                    \* datetime.now(), in seconds
    kill_switch,            \* whether Config.KILL_SWITCH_FILE exists
    is_active_ret           \* what the last is_active() call reported

execVars == <<mainPc, retVal, returned, hedge_results, core_results, consumed,
              flatList, flatIdx, flatRet, flatFailed,
              wpc, wres, wlog, leg_filled_qty, ordStatus, ordFilled,
              reversed, preflight>>

cbVars == <<consecutive_losses, peak_capital, breaker_triggered, breaker_until,
            current_capital, daily_slippage_events, last_reset_date, store,
            now, kill_switch, is_active_ret>>

orchVars == <<clock, state_cb, trades, trade_legs, reqPc, nreq, rm_active,
              req_trade_id, legIdx, executed_legs, exposure, last_ret,
              exit_call>>

\* One RiskManager instance and its last validate_trade call.
VARIABLES
    circuit_breaker_active,  \* self.circuit_breaker_active
    v_active_at_call,        \* the flag when the last validate_trade began
    v_failing,               \* the checks that found a violation in that call
    v_ran,                   \* the checks that call ran, in order
    v_violations             \* the list that call returned

rmVars == <<circuit_breaker_active, v_active_at_call, v_failing, v_ran,
            v_violations>>

\* The economic calendar and the last _check_veto_events call.
VARIABLES
    cal_events,   \* the events the calendar service knows
    veto_call     \* last call: the calendar then, the API status, the answer

vetoVars == <<cal_events, veto_call>>

\* The trades table as the limit checks of RiskManager see it, and the
\* request being served.
VARIABLES
    lim_now,       \* wall clock, in seconds
    lim_status,    \* trades.status by trade id, "none" without a row
    lim_stored,    \* trades.deployment_amount by trade id
    lim_mandate,   \* by trade id: deployment amounts of the mandates executed
    lim_pc,        \* "idle", or "validated" between validate_trade and execute
    lim_amount,    \* deployment_amount of the mandate of the request
    lim_nreq,      \* requests so far
    lim_last       \* what the last request came to

limVars == <<lim_now, lim_status, lim_stored, lim_mandate, lim_pc, lim_amount,
             lim_nreq, lim_last>>

\* One call of ExecutionEngine._flatten_legs, order by order.
VARIABLES
    fl_legs,      \* the legs passed in
    fl_idx,       \* index of the leg the loop is at
    fl_pc,        \* "start", "leg", "market", "limit", "give_up", "done"
    fl_attempt,   \* attempt of the current loop
    fl_market,    \* per leg: market orders the broker took
    fl_limit,     \* per leg: limit orders the broker took
    fl_price,     \* per leg: price of the last limit order, in paise
    fl_live,      \* legs with a reversing order left working at the broker
    fl_success,   \* legs whose reversing order was seen complete
    fl_alerts,    \* legs with the FAILED TO CLOSE alert
    fl_events     \* legs with the FAILED_EXIT risk event

flVars == <<fl_legs, fl_idx, fl_pc, fl_attempt, fl_market, fl_limit, fl_price,
            fl_live, fl_success, fl_alerts, fl_events>>

\* One call of ExecutionEngine.place_order, attempt by attempt.
VARIABLES
    po_pc,        \* "start", "retry" (inside the retry loop), "done"
    po_input,     \* the arguments and what the validator answers
    po_attempt,   \* attempts made
    po_orders,    \* orders of this call the broker has accepted
    po_ret        \* what the call returned: "none", "None", "order_id"

poVars == <<po_pc, po_input, po_attempt, po_orders, po_ret>>

\* The last leg accepted as filled and what was told to the circuit breaker.
VARIABLES
    sl_leg,       \* path of acceptance, expected price, average fill price
    sl_reported   \* slippage events recorded for that leg

slVars == <<sl_leg, sl_reported>>

\* The slippage events recorded with the circuit breaker, day by day.
VARIABLES
    events_on_day,       \* by calendar day: record_slippage_event calls made
    events_by_instance   \* the same, on the CircuitBreaker now running

sdVars == <<events_on_day, events_by_instance>>

\* SessionManager (core/session_manager.py) and the threads that call it.
VARIABLES
    sm_access,        \* access_token: the issue it came from (0: configured)
    sm_refresh,       \* refresh_token: likewise
    sm_lock,          \* validation_lock: the thread holding it, or "none"
    sm_last_validation, \* last_validation is set
    sm_phase,         \* the server: "startup" | "serving"
    sm_pc,            \* per thread: where it is in the session manager
    sm_via,           \* per thread: refresh_session called from "validate" | "direct"
    sm_new,           \* per thread: the issue in the response it received
    sm_new_refresh,   \* per thread: the response carries a refresh token
    sm_issued,        \* token pairs the broker has issued
    sm_ret            \* per thread: what get_current_token returned (-1: None)

smVars == <<sm_access, sm_refresh, sm_lock, sm_last_validation, sm_phase,
            sm_pc, sm_via, sm_new, sm_new_refresh, sm_issued, sm_ret>>

\* LiveGreeksManager's cache (core/greeks.py) and its readers.
VARIABLES
    gk_now,          \* time.time(), in seconds
    greeks_cache,    \* instrument key -> GreeksData, or NoGreeks
    gk_ret,          \* what the last get_position_greeks returned
    gk_ret_age,      \* the age its entry had at that call (-1: no entry)
    gp_legs,         \* get_portfolio_greeks: the legs still to aggregate
    gp_done,         \* the legs aggregated, each with its entry's age then
    portfolio        \* get_portfolio_greeks: the dictionary being built

gkVars == <<gk_now, greeks_cache, gk_ret, gk_ret_age, gp_legs, gp_done,
            portfolio>>

\* LiveGreeksManager's streaming connection (core/greeks.py).
VARIABLES
    subscribed_keys,  \* self.subscribed_keys
    connected,        \* self.connected
    ws,               \* self.ws: [keys, state], state "none" | "connecting" | "open" | "closed"
    ws_pc,            \* the LiveGreeks-WS thread: where it is in _ws_loop
    ws_keys,          \* _connect's local `keys`
    us_pc             \* the caller of update_subscriptions: "idle" | "check"

wsVars == <<subscribed_keys, connected, ws, ws_pc, ws_keys, us_pc>>

\* RegimeEngine (core/regime.py): the call being made and what it returns.
VARIABLES
    rg_call,   \* "none" | "weights" | "scores" | "mandate"
    rg_in,     \* the metrics (and, for "mandate", the Score) passed in
    rg_out     \* the value returned

rgVars == <<rg_call, rg_in, rg_out>>

\* The strategy builders (core/strategies.py, core/strategy_builder.py): the
\* last call and what it returned.
VARIABLES
    bd_call,   \* "none" | "generate" | "build_strategy"
    bd_in,     \* the mandate and the market the builder looked up
    bd_out     \* the value returned

bdVars == <<bd_call, bd_in, bd_out>>

\* OrderOrchestrator.exit_strategy, leg by leg, for the callers that can
\* run it on one trade (core/order_orchestrator.py).
VARIABLES
    xs_status,     \* status of the trade in the store
    xs_pc,         \* per caller: "idle" | "legs" | "update" | "done"
    xs_idx,        \* per caller: the entry leg its loop is at
    xs_exit_legs,  \* per caller: exit_legs, the legs _execute_leg succeeded on
    xs_orders,     \* per caller: the legs it has a reversing order at the broker for
    xs_filled,     \* per leg: the quantity reversing orders have filled
    xs_ret         \* per caller: "none" | "True" | "False"

xsVars == <<xs_status, xs_pc, xs_idx, xs_exit_legs, xs_orders, xs_filled,
            xs_ret>>

\* The circuit breaker of RiskManager across instances
\* (core/risk_manager.py, main.py).
VARIABLES
    br_store,   \* system_state['circuit_breaker_active']: "none" | "true" | "false"
    br_mem,     \* per instance: self.circuit_breaker_active
    br_made,    \* the instances constructed so far
    br_last     \* the last call: its name and its instance

brVars == <<br_store, br_mem, br_made, br_last>>

vars == <<execVars, orchVars, cbVars, rmVars, vetoVars, limVars, flVars, poVars, slVars, sdVars, smVars, gkVars, wsVars, rgVars, bdVars, xsVars, brVars>>

-----------------------------------------------------------------------------
(* Inputs of execute_strategy: two hedges and two cores of 100 contracts.  *)

Hedges == {"H1", "H2"}
Cores == {"C1", "C2"}
Legs == Hedges \cup Cores

role(l) == IF l \in Hedges THEN "HEDGE" ELSE "CORE"

LegQty == [l \in Legs |-> 100]

\* Quantities the broker may report as filled for a 'complete' order.
FillQtys == {80, 96, 100}

\* config.py: fill tolerances, as percentages (0.98 and 0.95 in the code).
HEDGE_FILL_TOLERANCE == 98
PARTIAL_FILL_TOLERANCE == 95

\* fill_threshold of _execute_leg_atomic.
fill_threshold(l) ==
    IF role(l) = "HEDGE" THEN HEDGE_FILL_TOLERANCE ELSE PARTIAL_FILL_TOLERANCE

\* status['filled_qty'] < leg['qty'] * fill_threshold
BelowThreshold(l, filled) == filled * 100 < LegQty[l] * fill_threshold(l)

\* What the broker still holds for a leg: entry fill minus filled reversals.
Position(l) == ordFilled[l] - reversed[l]

\* Legs handed to the first executor (for leg in hedges).
Phase1Legs == Hedges

\* Legs handed to the second executor (for leg in cores).
Phase2Legs == Cores

MAX_CONTRACTS_PER_INSTRUMENT == 1800
MAX_LOSS_PER_TRADE == 50000
MARGIN_BUFFER == 20

\* float('inf'), what check_margin_requirement returns when every retry
\* failed: above every amount of the model.
Infinity == 10000000

\* What the pre-flight checks look at: sum of the legs' qty, the computed
\* max loss, DRY_RUN_MODE, the margin the broker quotes (Infinity when the
\* query failed), get_funds(), the projected premium, the brokerage quoted
\* and whether the exchange lot size matches.
PreflightInputs ==
    [total_qty : {400, 2000}, max_loss : {40000, 60000}, dry_run : BOOLEAN,
     required_margin : {100000, Infinity}, available_funds : {0, 200000},
     projected_premium : {0, 10000}, brokerage_cost : {100, 9800},
     lot_size_ok : BOOLEAN]

NoPreflightInput ==
    [total_qty |-> 0, max_loss |-> 0, dry_run |-> FALSE, required_margin |-> 0,
     available_funds |-> 0, projected_premium |-> 0, brokerage_cost |-> 0,
     lot_size_ok |-> TRUE]

\* The pre-flight checks in the order execute_strategy makes them: the name
\* of the first that fails, "none" when all pass.  Margin and brokerage are
\* looked at only outside dry-run mode, and validate_lot_size answers True in
\* dry-run mode.
PreflightFailure(in) ==
    IF in.total_qty > MAX_CONTRACTS_PER_INSTRUMENT THEN "position_size"
    ELSE IF Cardinality(Legs) >= 4 /\ in.max_loss > MAX_LOSS_PER_TRADE THEN "max_loss"
    ELSE IF /\ ~in.dry_run
            /\ in.required_margin * 100 > in.available_funds * (100 - MARGIN_BUFFER)
         THEN "margin"
    ELSE IF /\ ~in.dry_run
            /\ in.projected_premium > 0
            /\ (in.projected_premium - in.brokerage_cost) * 100 < in.projected_premium * 5
         THEN "brokerage"
    ELSE IF ~in.dry_run /\ ~in.lot_size_ok THEN "lot_size"
    ELSE "none"

\* A failure that lets the strategy go on all the same.
PreflightAborts_ExceptLotSize(failure) == failure \notin {"none", "lot_size"}

\* `return []` follows every failed check.
PreflightAborts(failure) == failure # "none"

ExecInit ==
    /\ mainPc = "start"
    /\ retVal = "none"
    /\ returned = "none"
    /\ hedge_results = <<>>
    /\ core_results = <<>>
    /\ consumed = {}
    /\ flatList = <<>>
    /\ flatIdx = 1
    /\ flatRet = "none"
    /\ flatFailed = {}
    /\ wpc = [l \in Legs |-> "idle"]
    /\ wres = [l \in Legs |-> "none"]
    /\ wlog = [l \in Legs |-> "none"]
    /\ leg_filled_qty = [l \in Legs |-> 0]
    /\ ordStatus = [l \in Legs |-> "none"]
    /\ ordFilled = [l \in Legs |-> 0]
    /\ reversed = [l \in Legs |-> 0]
    /\ preflight = [failed |-> "pending", input |-> NoPreflightInput]

-----------------------------------------------------------------------------
(* _execute_leg_atomic: one worker per leg.                                *)

\* place_order: an order id, or None after the retries are exhausted.
WPlace(l) ==
    /\ wpc[l] = "place"
    /\ \E placed \in BOOLEAN :
         IF placed
         THEN /\ ordStatus' = [ordStatus EXCEPT ![l] = "open"]
              /\ wpc' = [wpc EXCEPT ![l] = "poll"]
              /\ UNCHANGED <<wres, wlog>>
         ELSE /\ wpc' = [wpc EXCEPT ![l] = "done"]
              /\ wres' = [wres EXCEPT ![l] = "fail"]
              /\ wlog' = [wlog EXCEPT ![l] = "FAILED"]
              /\ UNCHANGED ordStatus
    /\ UNCHANGED <<mainPc, retVal, returned, hedge_results, core_results,
                   consumed, flatList, flatIdx, flatRet, flatFailed,
                   leg_filled_qty, ordFilled, reversed>>

\* A poll of the while loop that sees a terminal status.  A poll that sees
\* None or a working order only sleeps and changes nothing.
WPoll(l) ==
    /\ wpc[l] = "poll"
    /\ ordStatus[l] \in {"complete", "rejected", "cancelled"}
    /\ IF ordStatus[l] = "complete"
       THEN IF BelowThreshold(l, ordFilled[l])
            THEN \* cancel_order on a complete order changes nothing
                 /\ wres' = [wres EXCEPT ![l] = "fail"]
                 /\ wlog' = [wlog EXCEPT ![l] = "PARTIAL_REJECTED"]
                 /\ UNCHANGED leg_filled_qty
            ELSE /\ leg_filled_qty' = [leg_filled_qty EXCEPT ![l] = ordFilled[l]]
                 /\ \E raises \in BOOLEAN :
                      \* the bookkeeping after the fill may raise
                      IF raises
                      THEN /\ wres' = [wres EXCEPT ![l] = "exc"]
                           /\ UNCHANGED wlog
                      ELSE /\ wres' = [wres EXCEPT ![l] = "ok"]
                           /\ wlog' = [wlog EXCEPT ![l] = "FILLED"]
       ELSE /\ wres' = [wres EXCEPT ![l] = "fail"]
            /\ wlog' = [wlog EXCEPT ![l] = "DEAD"]
            /\ UNCHANGED leg_filled_qty
    /\ wpc' = [wpc EXCEPT ![l] = "done"]
    /\ UNCHANGED <<mainPc, retVal, returned, hedge_results, core_results,
                   consumed, flatList, flatIdx, flatRet, flatFailed,
                   ordStatus, ordFilled, reversed>>

\* The while loop runs out of time: cancel_order, which may fail after its
\* retries and then leaves the order working.
WTimeout(l) ==
    /\ wpc[l] = "poll"
    /\ \E cancelled \in BOOLEAN :
         ordStatus' = IF ordStatus[l] = "open" /\ cancelled
                      THEN [ordStatus EXCEPT ![l] = "cancelled"]
                      ELSE ordStatus
    /\ wpc' = [wpc EXCEPT ![l] = "timeout"]
    /\ UNCHANGED <<mainPc, retVal, returned, hedge_results, core_results,
                   consumed, flatList, flatIdx, flatRet, flatFailed,
                   wres, wlog, leg_filled_qty, ordFilled, reversed>>

\* "Check if it filled during cancel": a complete order is accepted as it is.
WFinal(l) ==
    /\ wpc[l] = "timeout"
    /\ \E answered \in BOOLEAN :
         IF answered /\ ordStatus[l] = "complete"
         THEN /\ leg_filled_qty' = [leg_filled_qty EXCEPT ![l] = ordFilled[l]]
              /\ wres' = [wres EXCEPT ![l] = "ok"]
              /\ UNCHANGED wlog
         ELSE /\ wres' = [wres EXCEPT ![l] = "fail"]
              /\ wlog' = [wlog EXCEPT ![l] = "TIMEOUT"]
              /\ UNCHANGED leg_filled_qty
    /\ wpc' = [wpc EXCEPT ![l] = "done"]
    /\ UNCHANGED <<mainPc, retVal, returned, hedge_results, core_results,
                   consumed, flatList, flatIdx, flatRet, flatFailed,
                   ordStatus, ordFilled, reversed>>

-----------------------------------------------------------------------------
(* The broker.                                                             *)

\* A working entry order completes with some filled quantity.
BrokerFill(l) ==
    /\ ordStatus[l] = "open"
    /\ \E q \in FillQtys :
         /\ q <= LegQty[l]
         /\ ordFilled' = [ordFilled EXCEPT ![l] = q]
    /\ ordStatus' = [ordStatus EXCEPT ![l] = "complete"]
    /\ UNCHANGED <<mainPc, retVal, returned, hedge_results, core_results,
                   consumed, flatList, flatIdx, flatRet, flatFailed,
                   wpc, wres, wlog, leg_filled_qty, reversed>>

\* A working entry order is rejected.
BrokerReject(l) ==
    /\ ordStatus[l] = "open"
    /\ ordStatus' = [ordStatus EXCEPT ![l] = "rejected"]
    /\ UNCHANGED <<mainPc, retVal, returned, hedge_results, core_results,
                   consumed, flatList, flatIdx, flatRet, flatFailed,
                   wpc, wres, wlog, leg_filled_qty, ordFilled, reversed>>

-----------------------------------------------------------------------------
(* execute_strategy: the calling thread.                                   *)

\* Pre-flight checks (position size, max loss, margin, brokerage, lot size):
\* any failure returns [] before an order exists; otherwise the hedge
\* executor is created and every hedge is submitted.
Preflight ==
    /\ mainPc = "start"
    /\ \E in \in PreflightInputs :
         LET failure == PreflightFailure(in) IN
         /\ preflight' = IF failure = "none"
                         THEN [failed |-> "none", input |-> NoPreflightInput]
                         ELSE [failed |-> failure, input |-> in]
         /\ IF PreflightAborts(failure)
            THEN /\ mainPc' = "done"
                 /\ returned' = "empty"
                 /\ UNCHANGED wpc
            ELSE /\ mainPc' = "phase1"
                 /\ wpc' = [l \in Legs |-> IF l \in Phase1Legs THEN "place" ELSE wpc[l]]
                 /\ UNCHANGED returned
    /\ UNCHANGED <<retVal, hedge_results, core_results, consumed,
                   flatList, flatIdx, flatRet, flatFailed,
                   wres, wlog, leg_filled_qty, ordStatus, ordFilled,
                   reversed>>

\* self._flatten_legs(list); return []  -- issued inside the with block of
\* the executor whose exit is `exit`.
CallFlatten(list, exit) ==
    /\ retVal' = "empty"
    /\ IF list = <<>>
       THEN /\ mainPc' = exit
            /\ UNCHANGED <<flatList, flatIdx, flatRet>>
       ELSE /\ mainPc' = "flatten"
            /\ flatList' = list
            /\ flatIdx' = 1
            /\ flatRet' = exit

\* A weaker test than Succeeded: a worker that returned None passes too.
Succeeded_AnyResult(res) == res \in {"ok", "fail"}

\* `if result:` -- the worker returned a leg (not None).
Succeeded(res) == res = "ok"

\* Phase 1: as_completed yields the future of hedge l.
Phase1Yield(l) ==
    /\ mainPc = "phase1"
    /\ l \in Phase1Legs
    /\ wpc[l] = "done"
    /\ l \notin consumed
    /\ consumed' = consumed \cup {l}
    /\ CASE Succeeded(wres[l]) ->
              /\ hedge_results' = Append(hedge_results, l)
              /\ IF Phase1Legs \subseteq consumed'
                 THEN \* loop over, executor shut down
                      IF Len(hedge_results') # Cardinality(Phase1Legs)
                      THEN /\ CallFlatten(hedge_results', "done")
                           /\ UNCHANGED wpc
                      ELSE /\ mainPc' = "phase2"
                           /\ wpc' = [k \in Legs |->
                                        IF k \in Phase2Legs THEN "place" ELSE wpc[k]]
                           /\ UNCHANGED <<retVal, flatList, flatIdx, flatRet>>
                 ELSE UNCHANGED <<mainPc, retVal, wpc, flatList, flatIdx, flatRet>>
         [] ~Succeeded(wres[l]) /\ wres[l] = "fail" ->
              /\ IF hedge_results # <<>>
                 THEN CallFlatten(hedge_results, "phase1_exit")
                 ELSE CallFlatten(<<>>, "phase1_exit")
              /\ UNCHANGED <<hedge_results, wpc>>
         [] wres[l] = "exc" ->
              \* future.result() re-raises inside the with block
              /\ mainPc' = "phase1_exit"
              /\ retVal' = "raised"
              /\ UNCHANGED <<hedge_results, wpc, flatList, flatIdx, flatRet>>
    /\ UNCHANGED <<returned, core_results, flatFailed, wres, wlog,
                   leg_filled_qty, ordStatus, ordFilled, reversed>>

\* Phase 2: as_completed yields the future of core l.
Phase2Yield(l) ==
    /\ mainPc = "phase2"
    /\ l \in Phase2Legs
    /\ wpc[l] = "done"
    /\ l \notin consumed
    /\ consumed' = consumed \cup {l}
    /\ CASE Succeeded(wres[l]) ->
              /\ core_results' = Append(core_results, l)
              /\ IF Phase2Legs \subseteq consumed'
                 THEN IF Len(core_results') # Cardinality(Phase2Legs)
                      THEN /\ CallFlatten(hedge_results \o core_results', "done")
                           /\ UNCHANGED returned
                      ELSE \* SUCCESS: return executed
                           /\ mainPc' = "done"
                           /\ returned' = "legs"
                           /\ UNCHANGED <<retVal, flatList, flatIdx, flatRet>>
                 ELSE UNCHANGED <<mainPc, retVal, returned, flatList, flatIdx, flatRet>>
         [] ~Succeeded(wres[l]) /\ wres[l] = "fail" ->
              /\ CallFlatten(hedge_results \o core_results, "phase2_exit")
              /\ UNCHANGED <<core_results, returned>>
         [] wres[l] = "exc" ->
              /\ mainPc' = "phase2_exit"
              /\ retVal' = "raised"
              /\ UNCHANGED <<core_results, returned, flatList, flatIdx, flatRet>>
    /\ UNCHANGED <<hedge_results, flatFailed, wpc, wres, wlog,
                   leg_filled_qty, ordStatus, ordFilled, reversed>>

\* Leaving the with block: ThreadPoolExecutor.__exit__ waits for every
\* worker of the phase, then the pending return (or exception) takes effect.
ExecutorExit ==
    /\ mainPc \in {"phase1_exit", "phase2_exit"}
    /\ \A l \in (IF mainPc = "phase1_exit" THEN Phase1Legs ELSE Phase2Legs) :
         wpc[l] = "done"
    /\ mainPc' = "done"
    /\ returned' = retVal
    /\ UNCHANGED <<retVal, hedge_results, core_results, consumed,
                   flatList, flatIdx, flatRet, flatFailed,
                   wpc, wres, wlog, leg_filled_qty, ordStatus, ordFilled,
                   reversed>>

\* _flatten_legs moves on to the next leg, or returns to execute_strategy.
FlattenNext ==
    IF flatIdx >= Len(flatList)
    THEN /\ mainPc' = flatRet
         /\ UNCHANGED flatIdx
    ELSE /\ flatIdx' = flatIdx + 1
         /\ UNCHANGED mainPc

\* _flatten_legs on the current leg: the loop of 2 market and 3 limit tries
\* ends either with a reversing order seen complete (the leg is closed) or,
\* after the last try, with the FAILED TO CLOSE alert and risk event.  A leg
\* without filled_qty is skipped.
FlattenLeg ==
    /\ mainPc = "flatten"
    /\ LET l == flatList[flatIdx] IN
       IF leg_filled_qty[l] <= 0
       THEN UNCHANGED <<flatFailed, reversed>>
       ELSE \E closed \in BOOLEAN :
              IF closed
              THEN /\ reversed' = [reversed EXCEPT ![l] = @ + leg_filled_qty[l]]
                   /\ UNCHANGED flatFailed
              ELSE /\ flatFailed' = flatFailed \cup {l}
                   /\ UNCHANGED reversed
    /\ FlattenNext
    /\ UNCHANGED <<retVal, returned, hedge_results, core_results, consumed,
                   flatList, flatRet, wpc, wres, wlog, leg_filled_qty,
                   ordStatus, ordFilled>>

-----------------------------------------------------------------------------
(* The execute-strategy request: StrategyBuilder, RiskManager.validate_trade *)
(* and OrderOrchestrator.execute_strategy, run by one handler at a time     *)
(* (the endpoints are coroutines without an await: one runs to completion   *)
(* before the next starts).                                                 *)

\* Bounds of the request model.
MaxClock == 2
MaxRequests == 2
MaxEntriesBeforeExit == 1

\* trade_id = "VG_" + timestamp: one id per clock value.
TradeIds == 0..MaxClock

\* The legs StrategyBuilder.build_iron_fly returns, in list order.
BuilderLegs ==
    << [side |-> "SELL", option_type |-> "CE", role |-> "SHORT_CALL"],
       [side |-> "SELL", option_type |-> "PE", role |-> "SHORT_PUT"],
       [side |-> "BUY",  option_type |-> "CE", role |-> "LONG_CALL_WING"],
       [side |-> "BUY",  option_type |-> "PE", role |-> "LONG_PUT_WING"] >>

\* leg["quantity"] (mandate.max_lots) of every built leg.
BuilderQty == [i \in 1..Len(BuilderLegs) |-> 100]

OrchInit ==
    /\ clock = 0
    /\ state_cb = "none"
    /\ trades = [t \in TradeIds |-> "none"]
    /\ trade_legs = [t \in TradeIds |-> <<>>]
    /\ reqPc = "idle"
    /\ nreq = 0
    /\ rm_active = FALSE
    /\ req_trade_id = 0
    /\ legIdx = 1
    /\ executed_legs = <<>>
    /\ exposure = {}
    /\ last_ret = "none"
    /\ exit_call = <<>>

\* What an action outside OrderOrchestrator leaves alone.
orchLocals == <<req_trade_id, legIdx, executed_legs, exposure, last_ret>>

\* datetime.now() advances.
ClockTick ==
    /\ clock < MaxClock
    /\ clock' = clock + 1
    /\ UNCHANGED <<state_cb, trades, trade_legs, reqPc, nreq, rm_active,
                   orchLocals, exit_call>>

\* The checks of validate_trade after the circuit-breaker check, in the order
\* of the code (checks 2 to 9).
RiskChecks ==
    <<"capital", "margin", "concentration", "daily_limit", "drawdown",
      "market", "veto", "max_capital">>

RiskCheckNames == {RiskChecks[i] : i \in DOMAIN RiskChecks}

\* RiskManager.__init__: the flag starts False.
RmInit ==
    /\ circuit_breaker_active = FALSE
    /\ v_active_at_call = FALSE
    /\ v_failing = {}
    /\ v_ran = <<>>
    /\ v_violations = <<>>

\* The checks validate_trade runs: the circuit-breaker check, and the others
\* only when the flag is not set (`return False, violations`).
ChecksRun(active) ==
    IF active THEN <<"circuit_breaker">> ELSE <<"circuit_breaker">> \o RiskChecks

\* Only the first violation found is kept.
ReportedViolations_FirstOnly(failing) ==
    LET Fails(c) == c \in failing
        all == SelectSeq(RiskChecks, Fails)
    IN  IF all = <<>> THEN <<>> ELSE <<all[1]>>

\* Checks 2 to 9: each appends its message when it is not ok.
ReportedViolations(failing) ==
    LET Fails(c) == c \in failing IN SelectSeq(RiskChecks, Fails)

\* RiskManager.validate_trade on an instance whose in-memory flag is
\* `active`, when the checks in `failing` find a violation: the list of
\* violations returned.
validate_trade(active, failing) ==
    IF active
    THEN <<"circuit_breaker">>
    ELSE ReportedViolations(failing)

\* RiskManager.activate_circuit_breaker.
RmActivate ==
    /\ circuit_breaker_active' = TRUE
    /\ UNCHANGED <<v_active_at_call, v_failing, v_ran, v_violations>>

\* RiskManager.deactivate_circuit_breaker.
RmDeactivate ==
    /\ circuit_breaker_active' = FALSE
    /\ UNCHANGED <<v_active_at_call, v_failing, v_ran, v_violations>>

\* One call of validate_trade.  The drawdown check activates the breaker when
\* it finds the limit exceeded; the checks after it still run.
RmValidateTrade ==
    \E failing \in SUBSET RiskCheckNames :
        /\ v_active_at_call' = circuit_breaker_active
        /\ v_failing' = failing
        /\ v_ran' = ChecksRun(circuit_breaker_active)
        /\ v_violations' = validate_trade(circuit_breaker_active, failing)
        /\ circuit_breaker_active' =
               (circuit_breaker_active \/ "drawdown" \in failing)

\* POST /api/orders/execute-strategy up to the call of the orchestrator: a
\* fresh RiskManager (flag False), legs from the builder, validate_trade.
\* A drawdown violation activates the breaker on that instance and writes
\* circuit_breaker_active = 'true'.  Violations end the request (HTTP 400).
ApiExecuteStrategy ==
    /\ reqPc = "idle"
    /\ nreq < MaxRequests
    /\ nreq' = nreq + 1
    /\ \E failing \in SUBSET RiskCheckNames :
         LET violations == validate_trade(FALSE, failing) IN
         /\ rm_active' = ("drawdown" \in failing)
         /\ state_cb' = IF "drawdown" \in failing THEN "true" ELSE state_cb
         /\ reqPc' = IF violations = <<>> THEN "create" ELSE "idle"
    /\ exit_call' = <<>>
    /\ UNCHANGED <<clock, trades, trade_legs, orchLocals>>

\* POST /api/risk/circuit-breaker/activate: a fresh RiskManager activates
\* and persists the breaker.
ApiActivateCircuitBreaker ==
    /\ reqPc = "idle"
    /\ state_cb' = "true"
    /\ UNCHANGED <<clock, trades, trade_legs, reqPc, nreq, rm_active,
                   orchLocals, exit_call>>

\* The columns of table trades (database/schema.py).
TradeColumns ==
    {"trade_id", "strategy", "expiry_type", "expiry_date", "regime_name",
     "status", "entry_time", "exit_time", "entry_credit", "current_pnl",
     "realized_pnl", "max_loss", "max_profit", "deployment_amount",
     "exit_reason", "manual_exit_flag", "net_delta", "net_theta", "net_gamma",
     "net_vega", "created_at", "updated_at"}

\* TradeRepository.update_trade(trade_id, status=..., **kwargs): one UPDATE
\* that sets status and a column per keyword.  A keyword that is no column
\* makes the statement fail; the error is logged and nothing is written.
\* An id without a row updates nothing.
update_trade(rows, trade_id, status, kwargs) ==
    IF rows[trade_id] = "none" \/ ~(kwargs \subseteq TradeColumns)
    THEN rows
    ELSE [rows EXCEPT ![trade_id] = status]

\* OrderOrchestrator.execute_strategy, step 1: generate the trade id and
\* insert the PENDING row (an insert that hits an existing id is logged and
\* leaves the row as it is).
OrchCreateTrade ==
    /\ reqPc = "create"
    /\ req_trade_id' = clock
    /\ trades' = IF trades[clock] = "none"
                 THEN [trades EXCEPT ![clock] = "PENDING"]
                 ELSE trades
    /\ legIdx' = 1
    /\ executed_legs' = <<>>
    /\ exposure' = {}
    /\ last_ret' = "none"
    /\ reqPc' = "legs"
    /\ UNCHANGED <<clock, state_cb, trade_legs, nreq, rm_active, exit_call>>

\* The acceptance test of OrderOrchestrator._execute_leg on a COMPLETE
\* order: a fill ratio below PARTIAL_FILL_TOLERANCE is refused only for a
\* BUY leg whose ratio is also below HEDGE_FILL_TOLERANCE.
OrchAccepts(side, filled, total) ==
    ~(/\ filled * 100 < total * PARTIAL_FILL_TOLERANCE
      /\ side = "BUY"
      /\ filled * 100 < total * HEDGE_FILL_TOLERANCE)

\* filled_quantity the broker reports for a COMPLETE order of 100.
OrchFillQtys == {80, 100}

\* What _execute_leg meets: the order completes with a filled quantity; no
\* order id / REJECTED / CANCELLED (nothing filled); or the poll loop times
\* out and the order is cancelled, the cancel coming too late or not.
LegOutcomes ==
    {[kind |-> "complete", filled |-> q] : q \in OrchFillQtys}
    \cup {[kind |-> "dead", filled |-> 0]}
    \cup {[kind |-> "timeout", filled |-> q] : q \in {0, 100}}

\* One iteration of the leg loop: _execute_leg places a market order and
\* polls it; a leg that succeeded is appended and saved with save_leg.
OrchExecuteLeg ==
    /\ reqPc = "legs"
    /\ legIdx <= Len(BuilderLegs)
    /\ \E o \in LegOutcomes :
         LET leg == BuilderLegs[legIdx]
             result == [leg |-> legIdx, side |-> leg.side,
                        quantity |-> BuilderQty[legIdx],
                        filled_qty |-> o.filled, fill_time |-> clock]
         IN /\ exposure' = IF o.filled > 0 THEN exposure \cup {legIdx} ELSE exposure
            /\ IF o.kind = "complete" /\ OrchAccepts(leg.side, o.filled, BuilderQty[legIdx])
               THEN /\ executed_legs' = Append(executed_legs, result)
                    /\ trade_legs' = [trade_legs EXCEPT ![req_trade_id] = Append(@, result)]
                    /\ legIdx' = legIdx + 1
                    /\ UNCHANGED reqPc
               ELSE \* failed_leg_index = i; break
                    /\ reqPc' = "failed"
                    /\ UNCHANGED <<executed_legs, trade_legs, legIdx>>
    /\ UNCHANGED <<clock, state_cb, trades, nreq, rm_active, req_trade_id,
                   last_ret, exit_call>>

\* A leg failed: _rollback_executed_legs places a reversing order per
\* executed leg (a reversal that fails is logged and alerted), then the
\* trade is marked FAILED and None is returned.
OrchFail ==
    /\ reqPc = "failed"
    /\ \E notReversed \in SUBSET {executed_legs[i].leg : i \in 1..Len(executed_legs)} :
         exposure' = (exposure \ {executed_legs[i].leg : i \in 1..Len(executed_legs)})
                     \cup notReversed
    /\ trades' = update_trade(trades, req_trade_id, "FAILED", {})
    /\ last_ret' = "None"
    /\ reqPc' = "idle"
    /\ executed_legs' = <<>>
    /\ legIdx' = 1
    /\ UNCHANGED <<clock, state_cb, trade_legs, nreq, rm_active, req_trade_id,
                   exit_call>>

\* All legs executed: update_trade(status="OPEN", entry_credit, max_loss,
\* legs) -- the legs argument is not written -- and trade_id is returned.
OrchOpen ==
    /\ reqPc = "legs"
    /\ legIdx > Len(BuilderLegs)
    /\ trades' = update_trade(trades, req_trade_id, "OPEN", {"entry_credit", "max_loss"})
    /\ last_ret' = "trade_id"
    /\ reqPc' = "idle"
    /\ executed_legs' = <<>>
    /\ legIdx' = 1
    /\ UNCHANGED <<clock, state_cb, trade_legs, nreq, rm_active, req_trade_id,
                   exposure, exit_call>>

\* The status test of exit_strategy.
ExitAllowed_AnyKnown(status) == status # "none"

ExitAllowed(status) == status = "OPEN"

\* OrderOrchestrator.exit_strategy(trade_id): an unknown id, a trade that is
\* not OPEN or one without legs returns False.  Otherwise a reversing order
\* is placed per leg, and update_trade(status="CLOSED", exit_time,
\* exit_reason, realized_pnl, exit_legs) is called; True is returned.
ExitStrategy(trade_id) ==
    /\ reqPc = "idle"
    /\ IF trades[trade_id] = "none" \/ ~ExitAllowed(trades[trade_id])
          \/ trade_legs[trade_id] = <<>>
       THEN /\ exit_call' = <<trade_id, FALSE, 0>>
            /\ UNCHANGED trades
       ELSE /\ trades' = update_trade(trades, trade_id, "CLOSED",
                             {"exit_time", "exit_reason", "realized_pnl", "exit_legs"})
            /\ exit_call' = <<trade_id, TRUE, Len(trade_legs[trade_id])>>
    /\ UNCHANGED <<clock, state_cb, trade_legs, reqPc, nreq, rm_active,
                   req_trade_id, legIdx, executed_legs, exposure, last_ret>>

-----------------------------------------------------------------------------
(* The veto-event check: RiskManager._check_veto_events over               *)
(* CalendarEngine.fetch_calendar and analyze_veto_risk.  Times are whole   *)
(* hours from now.                                                         *)

MaxCalendarEvents == 2

\* hours_until of the events of the model: past, inside a day, on the day
\* boundary, between one and two days, on the 48 h boundary, beyond.
EventHours == {-1, 1, 24, 25, 36, 48, 49}

\* An event: hours_until and whether a VETO_KEYWORDS word is in its title.
CalendarEvent == [hours_until : EventHours, is_veto_event : BOOLEAN]

Calendars == {c \in SUBSET CalendarEvent : Cardinality(c) <= MaxCalendarEvents}

VetoInit ==
    /\ cal_events = {}
    /\ veto_call = [called |-> FALSE, events |-> {}, api_ok |-> TRUE,
                    is_ok |-> TRUE]

\* CalendarEngine.fetch_calendar(days_ahead): asks the service for the events
\* between now and now + days_ahead days; a status other than 200 or an
\* exception gives the empty list.
fetch_calendar(days_ahead, events, api_ok) ==
    IF ~api_ok
    THEN {}
    ELSE {e \in events : e.hours_until >= 0 /\ e.hours_until <= 24 * days_ahead}

\* CalendarEngine.analyze_veto_risk: <<has_veto, square_off_needed>> of the
\* nearest coming veto event.
analyze_veto_risk(events) ==
    LET veto_events == {e \in events : e.is_veto_event /\ e.hours_until > 0} IN
    IF veto_events = {}
    THEN <<FALSE, FALSE>>
    ELSE LET nearest == CHOOSE e \in veto_events :
                            \A f \in veto_events : e.hours_until <= f.hours_until
         IN  <<TRUE, nearest.hours_until <= 48>>

\* RiskManager._check_veto_events: is_ok.
check_veto_events(events, api_ok) ==
    LET r == analyze_veto_risk(fetch_calendar(1, events, api_ok)) IN
    ~(r[1] /\ r[2])

\* The calendar service publishes another set of events.
CalendarPublish ==
    /\ \E c \in Calendars : cal_events' = c
    /\ UNCHANGED veto_call

\* One call of _check_veto_events, the service answering or not.
CheckVetoEvents ==
    /\ \E api_ok \in BOOLEAN :
         veto_call' = [called |-> TRUE, events |-> cal_events, api_ok |-> api_ok,
                       is_ok |-> check_veto_events(cal_events, api_ok)]
    /\ UNCHANGED cal_events

-----------------------------------------------------------------------------
(* CircuitBreaker (core/risk.py): one instance over the system_state store, *)
(* the wall clock, the kill-switch file, and the process restarting.       *)

\* Bounds of the breaker model.
MaxTicks == 3
MaxLossCount == 5
MaxSlippageCount == 5

BASE_CAPITAL == 1000000
DAILY_LOSS_LIMIT == 3
MAX_DRAWDOWN_PCT == 15
MAX_CONSECUTIVE_LOSSES == 3
COOL_DOWN_PERIOD == 86400
MAX_SLIPPAGE_EVENTS_PER_DAY == 5

\* Python's None (an unset breaker_until, a key without a row).
None == -1

\* Inputs: portfolio values, trade results, day results, clock advances.
Capitals == {800000, 1200000}
TradePnls == {-500, 0, 500}
DailyPnls == {-40000, -10000, 10000}
TickSeconds == {1, COOL_DOWN_PERIOD}

\* date.today() of a datetime.now() given in seconds.
Today(t) == t \div 86400

\* _load_consecutive_losses / _load_peak_capital: the stored value, or the
\* default when the key has no row.  Values are written with str() and read
\* back with int() / float(), which returns the number written.
load_consecutive_losses(st) ==
    IF st.consecutive_losses = None THEN 0 ELSE st.consecutive_losses

load_peak_capital(st) ==
    IF st.peak_capital = None THEN BASE_CAPITAL ELSE st.peak_capital

\* CircuitBreaker.__init__ at time t over store st.
CBConstructed(t, st) ==
    /\ consecutive_losses = load_consecutive_losses(st)
    /\ peak_capital = load_peak_capital(st)
    /\ breaker_triggered = FALSE
    /\ breaker_until = None
    /\ current_capital = BASE_CAPITAL
    /\ daily_slippage_events = 0
    /\ last_reset_date = Today(t)

CBInit ==
    /\ now = 0
    /\ store = [consecutive_losses |-> None, peak_capital |-> None]
    /\ kill_switch = FALSE
    /\ is_active_ret = "none"
    /\ CBConstructed(0, [consecutive_losses |-> None, peak_capital |-> None])

\* Time passes.
CBTick ==
    /\ (now % 86400) + (now \div 86400) < MaxTicks
    /\ \E d \in TickSeconds : now' = now + d
    /\ UNCHANGED <<consecutive_losses, peak_capital, breaker_triggered,
                   breaker_until, current_capital, daily_slippage_events,
                   last_reset_date, store, kill_switch, is_active_ret>>

\* The operator creates or removes the kill-switch file.
KillSwitchToggle ==
    /\ kill_switch' = ~kill_switch
    /\ UNCHANGED <<consecutive_losses, peak_capital, breaker_triggered,
                   breaker_until, current_capital, daily_slippage_events,
                   last_reset_date, store, now, is_active_ret>>

\* The process restarts: a new CircuitBreaker over the same store.
Restart ==
    /\ consecutive_losses' = load_consecutive_losses(store)
    /\ peak_capital' = load_peak_capital(store)
    /\ breaker_triggered' = FALSE
    /\ breaker_until' = None
    /\ current_capital' = BASE_CAPITAL
    /\ daily_slippage_events' = 0
    /\ last_reset_date' = Today(now)
    /\ UNCHANGED <<store, now, kill_switch, is_active_ret>>

\* trigger_breaker: flag and deadline, in memory only (the risk_events row
\* it inserts is a log, never read back).
trigger_breaker ==
    /\ breaker_triggered' = TRUE
    /\ breaker_until' = now + COOL_DOWN_PERIOD

\* update_capital(new_capital)
UpdateCapital(new_capital) ==
    LET peak == IF new_capital > peak_capital THEN new_capital ELSE peak_capital IN
    /\ current_capital' = new_capital
    /\ peak_capital' = peak
    /\ store' = IF new_capital > peak_capital
                THEN [store EXCEPT !.peak_capital = peak]
                ELSE store
    /\ IF (peak - new_capital) * 100 >= MAX_DRAWDOWN_PCT * peak
       THEN trigger_breaker
       ELSE UNCHANGED <<breaker_triggered, breaker_until>>
    /\ UNCHANGED <<consecutive_losses, daily_slippage_events, last_reset_date,
                   now, kill_switch, is_active_ret>>

\* check_daily_loss_limit(current_pnl)
CheckDailyLossLimit(current_pnl) ==
    LET loss == IF current_pnl < 0 THEN -current_pnl ELSE current_pnl IN
    /\ current_pnl < 0
    /\ loss * 100 >= DAILY_LOSS_LIMIT * BASE_CAPITAL
    /\ trigger_breaker
    /\ UNCHANGED <<consecutive_losses, peak_capital, current_capital,
                   daily_slippage_events, last_reset_date, store, now,
                   kill_switch, is_active_ret>>

\* The daily counters are never reset.
NewDay_Never(t, last) == FALSE

\* _check_daily_reset: `date.today() > self.last_reset_date`.
NewDay(t, last) == Today(t) > last

\* record_slippage_event: daily reset, count, trip at the limit.
RecordSlippageEvent ==
    LET newDay == NewDay(now, last_reset_date)
        count == (IF newDay THEN 0 ELSE daily_slippage_events) + 1
    IN /\ count <= MaxSlippageCount
       /\ daily_slippage_events' = count
       /\ last_reset_date' = IF newDay THEN Today(now) ELSE last_reset_date
       /\ IF count >= MAX_SLIPPAGE_EVENTS_PER_DAY
          THEN trigger_breaker
          ELSE UNCHANGED <<breaker_triggered, breaker_until>>
       /\ UNCHANGED <<consecutive_losses, peak_capital, current_capital, store,
                      now, kill_switch, is_active_ret>>

\* record_trade_result(pnl)
RecordTradeResult(pnl) ==
    IF pnl < 0
    THEN /\ consecutive_losses < MaxLossCount
         /\ consecutive_losses' = consecutive_losses + 1
         /\ store' = [store EXCEPT !.consecutive_losses = consecutive_losses + 1]
         /\ IF consecutive_losses + 1 >= MAX_CONSECUTIVE_LOSSES
            THEN trigger_breaker
            ELSE UNCHANGED <<breaker_triggered, breaker_until>>
         /\ UNCHANGED <<peak_capital, current_capital, daily_slippage_events,
                        last_reset_date, now, kill_switch, is_active_ret>>
    ELSE /\ consecutive_losses > 0
         /\ consecutive_losses' = 0
         /\ store' = [store EXCEPT !.consecutive_losses = 0]
         /\ UNCHANGED <<peak_capital, breaker_triggered, breaker_until,
                        current_capital, daily_slippage_events, last_reset_date,
                        now, kill_switch, is_active_ret>>

\* A cooldown test that already fires at the deadline itself.
CooldownExpired_AtDeadline(t, until) == t >= until

\* The cooldown test of is_active: datetime.now() > self.breaker_until.
CooldownExpired(t, until) == t > until

\* is_active(): "active" / "inactive" are the returns True / False of the
\* plain paths, "expired" the return False of the cooldown-expired branch.
IsActive ==
    /\ IF kill_switch
       THEN /\ IF ~breaker_triggered
               THEN trigger_breaker
               ELSE UNCHANGED <<breaker_triggered, breaker_until>>
            /\ is_active_ret' = "active"
       ELSE IF /\ breaker_triggered
               /\ breaker_until # None
               /\ CooldownExpired(now, breaker_until)
            THEN /\ breaker_triggered' = FALSE
                 /\ breaker_until' = None
                 /\ is_active_ret' = "expired"
            ELSE /\ is_active_ret' = IF breaker_triggered THEN "active" ELSE "inactive"
                 /\ UNCHANGED <<breaker_triggered, breaker_until>>
    /\ UNCHANGED <<consecutive_losses, peak_capital, current_capital,
                   daily_slippage_events, last_reset_date, store, now, kill_switch>>

\* reset(admin_override = True)
Reset ==
    /\ breaker_triggered
    /\ breaker_triggered' = FALSE
    /\ breaker_until' = None
    /\ UNCHANGED <<consecutive_losses, peak_capital, current_capital,
                   daily_slippage_events, last_reset_date, store, now,
                   kill_switch, is_active_ret>>

-----------------------------------------------------------------------------
(* The daily-trade and capital limits: validate_trade's checks 2, 5 and 9   *)
(* over the trades table, and the rows execute_strategy writes.  A trade    *)
(* id is the second it was generated in; a day is SecondsPerDay seconds.    *)

SecondsPerDay == 4
MaxSecond == 5
MaxLimRequests == 5

MAX_CAPITAL_USAGE == 80
MAX_CAPITAL_PER_TRADE == 300000
MAX_TRADES_PER_DAY == 3

LimIds == 0 .. MaxSecond

\* mandate['deployment_amount'] of the requests.
DeploymentAmounts == {100000, 300000, 400000}

\* date() of a timestamp.
DayOf(second) == second \div SecondsPerDay

LimInit ==
    /\ lim_now = 0
    /\ lim_status = [i \in LimIds |-> "none"]
    /\ lim_stored = [i \in LimIds |-> 0]
    /\ lim_mandate = [i \in LimIds |-> 0]
    /\ lim_pc = "idle"
    /\ lim_amount = 0
    /\ lim_nreq = 0
    /\ lim_last = "none"

RECURSIVE SumOver(_, _)
SumOver(f, ids) ==
    IF ids = {} THEN 0
    ELSE LET i == CHOOSE j \in ids : TRUE IN f[i] + SumOver(f, ids \ {i})

\* TradeRepository.get_open_trades: the ids of the rows with status 'OPEN'.
get_open_trades(status) == {i \in DOMAIN status : status[i] = "OPEN"}

\* TradeRepository.get_trades_by_date: the rows whose entry_time is on the
\* day, whatever their status.
get_trades_by_date(status, day) ==
    {i \in DOMAIN status : status[i] # "none" /\ DayOf(i) = day}

\* _check_capital_allocation: is_ok.  currently_deployed sums the stored
\* deployment_amount of the open rows.
check_capital_allocation(deployment_amount, status, stored) ==
    LET max_allowed == (BASE_CAPITAL * MAX_CAPITAL_USAGE) \div 100
        currently_deployed == SumOver(stored, get_open_trades(status))
    IN  ~(currently_deployed + deployment_amount > max_allowed)

\* The limit is reached only above MAX_TRADES_PER_DAY.
DailyLimitReached_Above(count) == count > MAX_TRADES_PER_DAY

\* `len(today_trades) >= Config.MAX_TRADES_PER_DAY`.
DailyLimitReached(count) == count >= MAX_TRADES_PER_DAY

\* _check_daily_trade_limit: is_ok.
check_daily_trade_limit(status, today) ==
    ~DailyLimitReached(Cardinality(get_trades_by_date(status, today)))

\* _check_max_capital_per_trade: is_ok.
check_max_capital_per_trade(deployment_amount) ==
    ~(deployment_amount > MAX_CAPITAL_PER_TRADE)

LimTick ==
    /\ lim_now < MaxSecond
    /\ lim_now' = lim_now + 1
    /\ UNCHANGED <<lim_status, lim_stored, lim_mandate, lim_pc, lim_amount,
                   lim_nreq, lim_last>>

\* The request up to validate_trade: a fresh RiskManager, the three limit
\* checks computed from the table, the other checks finding a violation or
\* not.  Violations end the request.
LimValidate ==
    /\ lim_pc = "idle"
    /\ lim_nreq < MaxLimRequests
    /\ lim_nreq' = lim_nreq + 1
    /\ \E amount \in DeploymentAmounts, others \in SUBSET {"margin", "veto"} :
         LET failing ==
                 others
                 \cup (IF check_capital_allocation(amount, lim_status, lim_stored)
                       THEN {} ELSE {"capital"})
                 \cup (IF check_daily_trade_limit(lim_status, DayOf(lim_now))
                       THEN {} ELSE {"daily_limit"})
                 \cup (IF check_max_capital_per_trade(amount)
                       THEN {} ELSE {"max_capital"})
             violations == validate_trade(FALSE, failing)
         IN  IF violations = <<>>
             THEN /\ lim_pc' = "validated"
                  /\ lim_amount' = amount
                  /\ lim_last' = "validated"
             ELSE /\ lim_pc' = "idle"
                  /\ lim_amount' = 0
                  /\ lim_last' = IF "daily_limit" \in failing THEN "daily_limit"
                                 ELSE IF "capital" \in failing THEN "capital"
                                 ELSE "rejected"
    /\ UNCHANGED <<lim_now, lim_status, lim_stored, lim_mandate>>

\* OrderOrchestrator.execute_strategy as a whole: create_trade inserts the
\* PENDING row with the id of this second (deployment_amount is not passed
\* and stays 0; an id that has a row inserts nothing), the legs execute or
\* not, and the row becomes OPEN or FAILED.
LimExecute ==
    /\ lim_pc = "validated"
    /\ LET id == lim_now
           created == IF lim_status[id] = "none"
                      THEN [lim_status EXCEPT ![id] = "PENDING"]
                      ELSE lim_status
       IN  \E legs_ok \in BOOLEAN :
             IF legs_ok
             THEN /\ lim_status' = update_trade(created, id, "OPEN",
                                                {"entry_credit", "max_loss"})
                  /\ lim_mandate' = [lim_mandate EXCEPT ![id] = @ + lim_amount]
                  /\ lim_last' = "opened"
             ELSE /\ lim_status' = update_trade(created, id, "FAILED", {})
                  /\ lim_mandate' = [lim_mandate EXCEPT ![id] = 0]
                  /\ lim_last' = "failed"
    /\ lim_pc' = "idle"
    /\ lim_amount' = 0
    /\ UNCHANGED <<lim_now, lim_stored, lim_nreq>>

\* OrderOrchestrator.exit_strategy on an OPEN trade: the reversing orders,
\* then the update that names exit_legs.
LimExit ==
    /\ lim_pc = "idle"
    /\ \E id \in LimIds :
         /\ ExitAllowed(lim_status[id])
         /\ lim_status' = update_trade(lim_status, id, "CLOSED",
                              {"exit_time", "exit_reason", "realized_pnl", "exit_legs"})
    /\ lim_last' = "exited"
    /\ UNCHANGED <<lim_now, lim_stored, lim_mandate, lim_pc, lim_amount,
                   lim_nreq>>

-----------------------------------------------------------------------------
(* ExecutionEngine._flatten_legs in detail: per leg, the loop of market    *)
(* tries, the loop of limit tries, the alert.  Prices are in paise.        *)

MaxFlattenLegs == 2

\* The legs a call can get: filled or not, bought or sold, with the price
\* the limit orders refer to (current_ltp, else entry_price).
FlattenInputLegs ==
    {[filled_qty |-> 0, side |-> "BUY", ref_price |-> 10000],
     [filled_qty |-> 100, side |-> "BUY", ref_price |-> 10000],
     [filled_qty |-> 100, side |-> "SELL", ref_price |-> 20055]}

FlattenLists ==
    UNION {[1 .. n -> FlattenInputLegs] : n \in 0 .. MaxFlattenLegs}

FlLegIds == 1 .. MaxFlattenLegs

FlInit ==
    /\ fl_legs = <<>>
    /\ fl_idx = 0
    /\ fl_pc = "start"
    /\ fl_attempt = 0
    /\ fl_market = [i \in FlLegIds |-> 0]
    /\ fl_limit = [i \in FlLegIds |-> 0]
    /\ fl_price = [i \in FlLegIds |-> 0]
    /\ fl_live = {}
    /\ fl_success = {}
    /\ fl_alerts = {}
    /\ fl_events = {}

\* exit_side = 'SELL' if leg['side'] == 'BUY' else 'BUY'
exit_side(side) == IF side = "BUY" THEN "SELL" ELSE "BUY"

\* round(price, 1): to the nearest 10 paise.
round1(paise) == ((paise + 5) \div 10) * 10

\* exit_price * 1.10 for a buy, * 0.90 for a sell, rounded.
limit_exit_price(side, ref_price) ==
    IF exit_side(side) = "BUY"
    THEN round1((ref_price * 110) \div 100)
    ELSE round1((ref_price * 90) \div 100)

\* `for attempt in range(2)`
MarketTriesLeft(attempt) == attempt < 2

\* One try more than the loop makes.
LimitTriesLeft_OneMore(attempt) == attempt < 4

\* `for attempt in range(3)`
LimitTriesLeft(attempt) == attempt < 3

\* What one try can come to: place_order returns no order id; or the broker
\* takes the order and get_order_status shows it complete, shows it still
\* working, shows it rejected or cancelled, returns None, or the try raises
\* after the order was placed.
TryOutcomes ==
    {"not_placed", "complete", "pending", "dead", "no_status", "raised"}

\* The for loop over the legs goes on to the next leg, or the call returns.
FlAdvance ==
    IF fl_idx >= Len(fl_legs)
    THEN fl_pc' = "done" /\ UNCHANGED fl_idx
    ELSE fl_pc' = "leg" /\ fl_idx' = fl_idx + 1

\* _flatten_legs(legs): returns at once on an empty list.
FlCall ==
    /\ fl_pc = "start"
    /\ \E legs \in FlattenLists :
         /\ fl_legs' = legs
         /\ IF legs = <<>>
            THEN fl_pc' = "done" /\ UNCHANGED fl_idx
            ELSE fl_pc' = "leg" /\ fl_idx' = 1
    /\ UNCHANGED <<fl_attempt, fl_market, fl_limit, fl_price, fl_live, fl_success, fl_alerts, fl_events>>

\* Head of the loop body: a leg without filled quantity is skipped.
FlLegHead ==
    /\ fl_pc = "leg"
    /\ IF fl_legs[fl_idx].filled_qty <= 0
       THEN FlAdvance /\ UNCHANGED fl_attempt
       ELSE fl_pc' = "market" /\ fl_attempt' = 0 /\ UNCHANGED fl_idx
    /\ UNCHANGED <<fl_legs, fl_market, fl_limit, fl_price, fl_live, fl_success, fl_alerts, fl_events>>

\* One market try: place_order, sleep, get_order_status.  An order not seen
\* complete is left working at the broker.
FlMarketTry ==
    /\ fl_pc = "market"
    /\ \E r \in TryOutcomes :
         /\ fl_market' = IF r = "not_placed" THEN fl_market
                         ELSE [fl_market EXCEPT ![fl_idx] = @ + 1]
         /\ IF r = "complete"
            THEN /\ fl_success' = fl_success \cup {fl_idx}
                 /\ FlAdvance
                 /\ UNCHANGED <<fl_attempt, fl_live>>
            ELSE /\ fl_live' = IF r \in {"not_placed", "dead"} THEN fl_live
                               ELSE fl_live \cup {fl_idx}
                 /\ IF MarketTriesLeft(fl_attempt + 1)
                    THEN fl_attempt' = fl_attempt + 1 /\ UNCHANGED fl_pc
                    ELSE fl_attempt' = 0 /\ fl_pc' = "limit"
                 /\ UNCHANGED <<fl_success, fl_idx>>
    /\ UNCHANGED <<fl_legs, fl_limit, fl_price, fl_alerts, fl_events>>

\* One limit try: place_order at the aggressive price, sleep,
\* get_order_status; an order seen with another status is cancelled (the
\* cancel succeeding or not), one without a status is left working.
FlLimitTry ==
    /\ fl_pc = "limit"
    /\ \E r \in TryOutcomes, cancelled \in BOOLEAN :
         /\ fl_limit' = IF r = "not_placed" THEN fl_limit
                        ELSE [fl_limit EXCEPT ![fl_idx] = @ + 1]
         /\ fl_price' = IF r = "not_placed" THEN fl_price
                        ELSE [fl_price EXCEPT ![fl_idx] =
                                 limit_exit_price(fl_legs[fl_idx].side,
                                                  fl_legs[fl_idx].ref_price)]
         /\ IF r = "complete"
            THEN /\ fl_success' = fl_success \cup {fl_idx}
                 /\ FlAdvance
                 /\ UNCHANGED <<fl_attempt, fl_live>>
            ELSE /\ fl_live' = IF \/ r \in {"not_placed", "dead"}
                                  \/ (r = "pending" /\ cancelled)
                               THEN fl_live
                               ELSE fl_live \cup {fl_idx}
                 /\ IF LimitTriesLeft(fl_attempt + 1)
                    THEN fl_attempt' = fl_attempt + 1 /\ UNCHANGED fl_pc
                    ELSE fl_attempt' = 0 /\ fl_pc' = "give_up"
                 /\ UNCHANGED <<fl_success, fl_idx>>
    /\ UNCHANGED <<fl_legs, fl_market, fl_alerts, fl_events>>

\* `if not success`: the CRITICAL alert and the FAILED_EXIT risk event, then
\* the next leg.
FlGiveUp ==
    /\ fl_pc = "give_up"
    /\ fl_alerts' = fl_alerts \cup {fl_idx}
    /\ fl_events' = fl_events \cup {fl_idx}
    /\ FlAdvance
    /\ UNCHANGED <<fl_legs, fl_attempt, fl_market, fl_limit, fl_price, fl_live,
                   fl_success>>

\* The steps of the thread that runs _flatten_legs.
FlThread == FlLegHead \/ FlMarketTry \/ FlLimitTry \/ FlGiveUp

-----------------------------------------------------------------------------
(* ExecutionEngine.place_order outside dry-run mode: the parameter and     *)
(* instrument checks, then the loop of MAX_API_RETRIES attempts.           *)

MAX_API_RETRIES == 3

PlaceOrderInputs ==
    [qty : {0, 50, 100}, price : {-1, 0, 150}, order_type : {"LIMIT", "MARKET"},
     contract_exists : BOOLEAN, banned : BOOLEAN]

NoPlaceOrderInput ==
    [qty |-> 0, price |-> 0, order_type |-> "LIMIT", contract_exists |-> FALSE,
     banned |-> FALSE]

PoInit ==
    /\ po_pc = "start"
    /\ po_input = NoPlaceOrderInput
    /\ po_attempt = 0
    /\ po_orders = 0
    /\ po_ret = "none"

\* What one attempt can come to at the broker:
\*   "placed"        success response with an order id;
\*   "not_placed"    a response that is no success (nothing was placed);
\*   "error"         the request raises before the broker took the order;
\*   "lost"          the broker took the order and the try block raises all
\*                   the same (the response is lost or times out, or the
\*                   logging of the placed order raises).
AttemptOutcomes == {"placed", "not_placed", "error", "lost"}

\* The broker has the order after the attempt.
AcceptedByBroker(outcome) == outcome \in {"placed", "lost"}

\* The attempt falls through to the next iteration of the loop: the else
\* branch of the response test, and every exception of the try block.
RetriesAfter(outcome) == outcome # "placed"

\* place_order up to the loop: `qty <= 0 or price < 0`, the contract lookup
\* and the ban list each return None.
PoCall ==
    /\ po_pc = "start"
    /\ \E in \in PlaceOrderInputs :
         /\ po_input' = in
         /\ IF in.qty <= 0 \/ in.price < 0 \/ ~in.contract_exists \/ in.banned
            THEN po_pc' = "done" /\ po_ret' = "None"
            ELSE po_pc' = "retry" /\ UNCHANGED po_ret
    /\ UNCHANGED <<po_attempt, po_orders>>

\* One iteration of `for attempt in range(MAX_API_RETRIES)`; after the last
\* one the call returns None.
PoAttempt ==
    /\ po_pc = "retry"
    /\ \E outcome \in AttemptOutcomes :
         /\ po_orders' = IF AcceptedByBroker(outcome) THEN po_orders + 1
                         ELSE po_orders
         /\ po_attempt' = po_attempt + 1
         /\ IF ~RetriesAfter(outcome)
            THEN po_pc' = "done" /\ po_ret' = "order_id"
            ELSE IF po_attempt + 1 < MAX_API_RETRIES
                 THEN UNCHANGED <<po_pc, po_ret>>
                 ELSE po_pc' = "done" /\ po_ret' = "None"
    /\ UNCHANGED po_input

\* The caller calls again.
PoReturn ==
    /\ po_pc = "done"
    /\ po_pc' = "start"
    /\ po_attempt' = 0
    /\ po_orders' = 0
    /\ po_ret' = "none"
    /\ UNCHANGED po_input

-----------------------------------------------------------------------------
(* Slippage of an accepted fill: the three places where a leg is accepted  *)
(* as filled.  Prices are in paise.                                        *)

SLIPPAGE_TOLERANCE == 2

ExpectedPrices == {0, 10000, 25000, 50000}
FillPrices == {9700, 9800, 10000, 10200, 10300, 24400, 25000, 25600, 50000, 51500}

SlInit ==
    /\ sl_leg = [path |-> "none", expected |-> 0, avg |-> 0]
    /\ sl_reported = 0

\* `abs(actual - expected) / expected > SLIPPAGE_TOLERANCE`, 0 when the
\* expected price is not positive.
ExceedsTolerance(expected, avg) ==
    LET diff == IF avg >= expected THEN avg - expected ELSE expected - avg IN
    expected > 0 /\ diff * 100 > SLIPPAGE_TOLERANCE * expected

\* _execute_leg_atomic, status complete inside the polling loop: slippage
\* above the tolerance is recorded with the circuit breaker.
SlAcceptComplete ==
    \E e \in ExpectedPrices, a \in FillPrices :
        /\ sl_leg' = [path |-> "complete", expected |-> e, avg |-> a]
        /\ sl_reported' = IF ExceedsTolerance(e, a) THEN 1 ELSE 0

\* _execute_leg_atomic after the timeout: an order found complete after the
\* cancel is returned with entry_price and filled_qty set, nothing else.
SlAcceptAfterTimeout ==
    \E e \in ExpectedPrices, a \in FillPrices :
        /\ sl_leg' = [path |-> "timeout", expected |-> e, avg |-> a]
        /\ sl_reported' = 0

\* OrderOrchestrator._execute_leg: slippage above the tolerance is logged
\* as a warning and stored in the result.
SlAcceptOrchestrator ==
    \E e \in ExpectedPrices, a \in FillPrices :
        /\ sl_leg' = [path |-> "orchestrator", expected |-> e, avg |-> a]
        /\ sl_reported' = 0

-----------------------------------------------------------------------------
(* The slippage events of each calendar day, counted as they are recorded  *)
(* with the CircuitBreaker of the running process.                         *)

MaxDayEvents == 6

SlipDays == 0 .. MaxTicks

SdInit ==
    /\ events_on_day = [d \in SlipDays |-> 0]
    /\ events_by_instance = [d \in SlipDays |-> 0]

\* record_slippage_event, with the call counted under its calendar day.
SdRecordSlippageEvent ==
    /\ events_on_day[Today(now)] < MaxDayEvents
    /\ RecordSlippageEvent
    /\ events_on_day' = [events_on_day EXCEPT ![Today(now)] = @ + 1]
    /\ events_by_instance' = [events_by_instance EXCEPT ![Today(now)] = @ + 1]

\* The process restarts: the new CircuitBreaker has recorded nothing.
SdRestart ==
    /\ Restart
    /\ events_by_instance' = [d \in SlipDays |-> 0]
    /\ UNCHANGED events_on_day

-----------------------------------------------------------------------------
(* SessionManager: validate_session under validation_lock, refresh_session *)
(* statement by statement, get_current_token, and the callers: the server  *)
(* ("loop": startup, then POST /api/session/refresh) and worker threads    *)
(* calling get_current_token.  A token is named by the issue it came from. *)

MaxIssues == 2

SmWorkers == {"w1", "w2"}
SmThreads == {"loop"} \cup SmWorkers

SmInit ==
    /\ sm_access = 0
    /\ sm_refresh = 0
    /\ sm_lock = "none"
    /\ sm_last_validation = FALSE
    /\ sm_phase = "startup"
    /\ sm_pc = [t \in SmThreads |-> "idle"]
    /\ sm_via = [t \in SmThreads |-> "direct"]
    /\ sm_new = [t \in SmThreads |-> 0]
    /\ sm_new_refresh = [t \in SmThreads |-> FALSE]
    /\ sm_issued = 0
    /\ sm_ret = [t \in SmThreads |-> -1]

\* The outcomes of validate_session's tests: checked within the last five
\* minutes, token expiring within the hour, profile fetched, profile refused.
ValidateBranches == {"recent", "expiring", "valid", "invalid"}

\* refresh_session returns to its caller.  From validate_session the lock
\* is released on the way out; get_current_token goes on to read the token
\* when the result is True; startup calls refresh_session itself when
\* validate_session returned False.
SmReturn(t, ok, fromValidate) ==
    /\ sm_lock' = IF fromValidate THEN "none" ELSE sm_lock
    /\ IF t \in SmWorkers
       THEN /\ sm_pc' = [sm_pc EXCEPT ![t] = IF ok THEN "read_token" ELSE "idle"]
            /\ sm_ret' = [sm_ret EXCEPT ![t] = -1]
            /\ UNCHANGED <<sm_phase, sm_via>>
       ELSE /\ sm_ret' = sm_ret
            /\ IF sm_phase = "startup" /\ fromValidate /\ ~ok
               THEN /\ sm_pc' = [sm_pc EXCEPT ![t] = "refresh"]
                    /\ sm_via' = [sm_via EXCEPT ![t] = "direct"]
                    /\ UNCHANGED sm_phase
               ELSE /\ sm_pc' = [sm_pc EXCEPT ![t] = "idle"]
                    /\ sm_phase' = "serving"
                    /\ UNCHANGED sm_via

\* validate_session: takes validation_lock, and either returns at once or
\* goes into refresh_session with the lock held.  Called by startup on the
\* server thread and by get_current_token on a worker.
SmValidateSession(t) ==
    /\ sm_pc[t] = "idle"
    /\ IF t = "loop" THEN sm_phase = "startup" ELSE sm_phase = "serving"
    /\ sm_lock = "none"
    /\ \E branch \in ValidateBranches :
        /\ branch = "recent" => sm_last_validation
        /\ sm_last_validation' =
               (sm_last_validation \/ branch \in {"valid", "invalid"})
        /\ IF branch \in {"recent", "valid"}
           THEN /\ SmReturn(t, TRUE, FALSE)
           ELSE /\ sm_lock' = t
                /\ sm_pc' = [sm_pc EXCEPT ![t] = "refresh"]
                /\ sm_via' = [sm_via EXCEPT ![t] = "validate"]
                /\ UNCHANGED <<sm_phase, sm_ret>>
    /\ UNCHANGED <<sm_access, sm_refresh, sm_new, sm_new_refresh, sm_issued>>

\* POST /api/session/refresh: the handler calls refresh_session.
SmEndpointRefresh ==
    /\ sm_phase = "serving"
    /\ sm_pc["loop"] = "idle"
    /\ sm_pc' = [sm_pc EXCEPT !["loop"] = "refresh"]
    /\ sm_via' = [sm_via EXCEPT !["loop"] = "direct"]
    /\ UNCHANGED <<sm_access, sm_refresh, sm_lock, sm_last_validation,
                   sm_phase, sm_new, sm_new_refresh, sm_issued, sm_ret>>

\* refresh_session: requests.post with the refresh token.
SmRefreshPost(t) ==
    /\ sm_pc[t] = "refresh"
    /\ sm_pc' = [sm_pc EXCEPT ![t] = "roundtrip"]
    /\ UNCHANGED <<sm_access, sm_refresh, sm_lock, sm_last_validation,
                   sm_phase, sm_via, sm_new, sm_new_refresh, sm_issued, sm_ret>>

\* The response: a new access token, with or without a new refresh token.
SmRefreshGranted(t) ==
    /\ sm_pc[t] = "roundtrip"
    /\ sm_issued < MaxIssues
    /\ sm_issued' = sm_issued + 1
    /\ sm_new' = [sm_new EXCEPT ![t] = sm_issued + 1]
    /\ \E has \in BOOLEAN : sm_new_refresh' = [sm_new_refresh EXCEPT ![t] = has]
    /\ sm_pc' = [sm_pc EXCEPT ![t] = "granted"]
    /\ UNCHANGED <<sm_access, sm_refresh, sm_lock, sm_last_validation,
                   sm_phase, sm_via, sm_ret>>

\* The response is an error, has no access token, or the request raised.
SmRefreshRefused(t) ==
    /\ sm_pc[t] = "roundtrip"
    /\ SmReturn(t, FALSE, sm_via[t] = "validate")
    /\ UNCHANGED <<sm_access, sm_refresh, sm_last_validation, sm_new,
                   sm_new_refresh, sm_issued>>

\* `self.access_token = new_access_token`.
SmWriteAccess(t) ==
    /\ sm_pc[t] = "granted"
    /\ sm_access' = sm_new[t]
    /\ sm_pc' = [sm_pc EXCEPT ![t] = "wrote_access"]
    /\ UNCHANGED <<sm_refresh, sm_lock, sm_last_validation, sm_phase, sm_via,
                   sm_new, sm_new_refresh, sm_issued, sm_ret>>

\* `if new_refresh_token: self.refresh_token = new_refresh_token`, the
\* expiry, the persistence, and `return True`.
SmWriteRefresh(t) ==
    /\ sm_pc[t] = "wrote_access"
    /\ sm_refresh' = IF sm_new_refresh[t] THEN sm_new[t] ELSE sm_refresh
    /\ SmReturn(t, TRUE, sm_via[t] = "validate")
    /\ UNCHANGED <<sm_access, sm_last_validation, sm_new, sm_new_refresh,
                   sm_issued>>

\* get_current_token: `return self.access_token`.
SmReadToken(t) ==
    /\ sm_pc[t] = "read_token"
    /\ sm_ret' = [sm_ret EXCEPT ![t] = sm_access]
    /\ sm_pc' = [sm_pc EXCEPT ![t] = "idle"]
    /\ UNCHANGED <<sm_access, sm_refresh, sm_lock, sm_last_validation,
                   sm_phase, sm_via, sm_new, sm_new_refresh, sm_issued>>

\* The threads with a refresh request at the broker.
RefreshesInFlight == {t \in SmThreads : sm_pc[t] = "roundtrip"}

\* A thread has stored the new access token and not yet the new refresh
\* token that came with it.
HalfUpdated ==
    \E t \in SmThreads : sm_pc[t] = "wrote_access" /\ sm_new_refresh[t]

-----------------------------------------------------------------------------
(* LiveGreeksManager: the cache _process_instrument fills, and its two     *)
(* readers get_position_greeks and get_portfolio_greeks (leg by leg: the   *)
(* lock is taken per leg, so the clock and the feed move in between).      *)
(* Greeks are in hundredths.                                               *)

GREEKS_MAX_AGE == 60

MaxPortfolioLegs == 2

GkTimes == {0, 59, 60, 61}
GkKeys == {"NSE_FO|1", "NSE_FO|2"}
NoGreeks == [timestamp |-> -1]
GreekValues == {[delta |-> 50, vega |-> 20]}
GkLegs == {[key |-> "NSE_FO|1", side |-> "SELL", qty |-> 50],
           [key |-> "NSE_FO|2", side |-> "BUY", qty |-> 30]}
GkLegLists == UNION {[1 .. n -> GkLegs] : n \in 0 .. MaxPortfolioLegs}

EmptyPortfolio ==
    [delta |-> 0, vega |-> 0, short_vega_exposure |-> 0, legs_count |-> 0,
     stale_count |-> 0]

GkInit ==
    /\ gk_now = 0
    /\ greeks_cache = [k \in GkKeys |-> NoGreeks]
    /\ gk_ret = NoGreeks
    /\ gk_ret_age = -1
    /\ gp_legs = <<>>
    /\ gp_done = <<>>
    /\ portfolio = EmptyPortfolio

\* The entry is taken as fresh when it is at most a minute old.
FreshEnough_Inclusive(age) == age <= GREEKS_MAX_AGE

\* `(time.time() - data.timestamp) < 60`.
FreshEnough(age) == age < GREEKS_MAX_AGE

\* The age of a key's entry now; -1 when the cache has none.
EntryAge(k) ==
    IF greeks_cache[k] = NoGreeks THEN -1
    ELSE gk_now - greeks_cache[k].timestamp

\* get_position_greeks(k): the entry when it is fresh, else None.
get_position_greeks(k) ==
    IF greeks_cache[k] # NoGreeks /\ FreshEnough(EntryAge(k))
    THEN greeks_cache[k]
    ELSE NoGreeks

\* calculate_position_greeks: the notional greeks of a leg, {} when
\* get_position_greeks has nothing.
side_mult(leg) == IF leg.side = "SELL" THEN -1 ELSE 1

calculate_position_greeks(leg) ==
    LET live == get_position_greeks(leg.key)
    IN  IF live = NoGreeks THEN [empty |-> TRUE]
        ELSE [empty |-> FALSE,
              delta |-> live.delta * leg.qty * side_mult(leg),
              vega |-> live.vega * leg.qty * side_mult(leg)]

\* The clock moves on.
GkTick ==
    /\ \E t \in GkTimes : t > gk_now /\ gk_now' = t
    /\ UNCHANGED <<greeks_cache, gk_ret, gk_ret_age, gp_legs, gp_done,
                   portfolio>>

\* _process_instrument: a feed message for a key, stamped with the time.
GkProcessInstrument ==
    /\ \E k \in GkKeys, g \in GreekValues :
        greeks_cache' = [greeks_cache EXCEPT
            ![k] = [delta |-> g.delta, vega |-> g.vega, timestamp |-> gk_now]]
    /\ UNCHANGED <<gk_now, gk_ret, gk_ret_age, gp_legs, gp_done, portfolio>>

\* A caller reads one key with get_position_greeks.
GkGetPositionGreeks ==
    /\ \E k \in GkKeys :
        /\ gk_ret' = get_position_greeks(k)
        /\ gk_ret_age' = EntryAge(k)
    /\ UNCHANGED <<gk_now, greeks_cache, gp_legs, gp_done, portfolio>>

\* get_portfolio_greeks(legs): the dictionary is initialised.
GkPortfolioStart ==
    /\ gp_legs = <<>>
    /\ \E legs \in GkLegLists :
        /\ legs # <<>>
        /\ gp_legs' = legs
        /\ portfolio' = [EmptyPortfolio EXCEPT !.legs_count = Len(legs)]
    /\ gp_done' = <<>>
    /\ UNCHANGED <<gk_now, greeks_cache, gk_ret, gk_ret_age>>

\* One turn of `for leg in legs`.
GkPortfolioLeg ==
    /\ gp_legs # <<>>
    /\ LET leg == Head(gp_legs)
           pos == calculate_position_greeks(leg)
       IN  /\ portfolio' =
                IF pos.empty
                THEN [portfolio EXCEPT !.stale_count = @ + 1]
                ELSE [portfolio EXCEPT
                        !.delta = @ + pos.delta,
                        !.vega = @ + pos.vega,
                        !.short_vega_exposure =
                            IF leg.side = "SELL" /\ pos.vega > 0
                            THEN @ + pos.vega ELSE @]
           /\ gp_done' = Append(gp_done,
                  [leg |-> leg, age |-> EntryAge(leg.key),
                   delta |-> greeks_cache[leg.key]])
    /\ gp_legs' = Tail(gp_legs)
    /\ UNCHANGED <<gk_now, greeks_cache, gk_ret, gk_ret_age>>

-----------------------------------------------------------------------------
(* LiveGreeksManager's connection: the LiveGreeks-WS thread running        *)
(* _ws_loop and _connect, the streamer's callbacks, and a thread calling   *)
(* update_subscriptions.                                                   *)

WsKeys == {"NSE_FO|1", "NSE_FO|2"}
WsKeySets == SUBSET WsKeys

WsInit ==
    /\ subscribed_keys = {}
    /\ connected = FALSE
    /\ ws = [keys |-> {}, state |-> "none"]
    /\ ws_pc = "connect"
    /\ ws_keys = {}
    /\ us_pc = "idle"

\* _connect: `keys = list(self.subscribed_keys)` under the lock; without
\* keys it returns, and _ws_loop sleeps before the next turn.
WsReadKeys ==
    /\ ws_pc = "connect"
    /\ ws_keys' = subscribed_keys
    /\ ws_pc' = IF subscribed_keys = {} THEN "backoff" ELSE "create"
    /\ UNCHANGED <<subscribed_keys, connected, ws, us_pc>>

\* _connect: MarketDataStreamerV3(api_client, keys, ...) and ws.connect().
WsCreate ==
    /\ ws_pc = "create"
    /\ ws' = [keys |-> ws_keys, state |-> "connecting"]
    /\ ws_pc' = "connecting"
    /\ UNCHANGED <<subscribed_keys, connected, ws_keys, us_pc>>

\* _on_open: the connection is up; _connect goes into
\* `while self.running and self.connected`.
WsOnOpen ==
    /\ ws_pc = "connecting"
    /\ ws.state = "connecting"
    /\ ws' = [ws EXCEPT !.state = "open"]
    /\ connected' = TRUE
    /\ ws_pc' = "hold"
    /\ UNCHANGED <<subscribed_keys, ws_keys, us_pc>>

\* ws.connect() raises: _connect clears connected and re-raises, _ws_loop
\* catches and sleeps.
WsConnectFails ==
    /\ ws_pc = "connecting"
    /\ ws.state = "connecting"
    /\ ws' = [ws EXCEPT !.state = "closed"]
    /\ connected' = FALSE
    /\ ws_pc' = "backoff"
    /\ UNCHANGED <<subscribed_keys, ws_keys, us_pc>>

\* _on_error / _on_close from the network: the connection is lost.
WsOnClose ==
    /\ ws.state = "open"
    /\ ws' = [ws EXCEPT !.state = "closed"]
    /\ connected' = FALSE
    /\ UNCHANGED <<subscribed_keys, ws_pc, ws_keys, us_pc>>

\* _connect's wait loop sees connected false and returns; _ws_loop sleeps.
WsLeaveHold ==
    /\ ws_pc = "hold"
    /\ ~connected
    /\ ws_pc' = "backoff"
    /\ UNCHANGED <<subscribed_keys, connected, ws, ws_keys, us_pc>>

\* _ws_loop: the back-off sleep is over, the next turn begins.
WsBackoffOver ==
    /\ ws_pc = "backoff"
    /\ ws_pc' = "connect"
    /\ UNCHANGED <<subscribed_keys, connected, ws, ws_keys, us_pc>>

\* update_subscriptions: the key set is replaced under the lock, unless it
\* is the same set.
UpdateSubscriptions ==
    /\ us_pc = "idle"
    /\ \E new_keys \in WsKeySets :
        /\ new_keys # subscribed_keys
        /\ subscribed_keys' = new_keys
    /\ us_pc' = "check"
    /\ UNCHANGED <<connected, ws, ws_pc, ws_keys>>

\* update_subscriptions: `if self.ws and self.connected: self.ws.disconnect()`,
\* which closes the connection (_on_close).
UpdateForceReconnect ==
    /\ us_pc = "check"
    /\ IF ws.state # "none" /\ connected
       THEN /\ ws' = [ws EXCEPT !.state = "closed"]
            /\ connected' = FALSE
       ELSE UNCHANGED <<ws, connected>>
    /\ us_pc' = "idle"
    /\ UNCHANGED <<subscribed_keys, ws_pc, ws_keys>>

\* The connection is up and subscribed to exactly the given keys.
StreamingOn(keys) == connected /\ ws.state = "open" /\ ws.keys = keys

-----------------------------------------------------------------------------
(* RegimeEngine: calculate_dynamic_weights, calculate_scores and           *)
(* generate_mandate.  Weights are in hundredths, z-scores and PCR in       *)
(* hundredths, sub-scores, VRP and term edge in tenths, the composite in   *)
(* thousandths, allocations in thousandths of a percent.  The metrics      *)
(* objects are one record; garch_above stands for                          *)
(* `garch28 > rv28 * 1.2`, pain_near for `pain_distance < 0.01`, events    *)
(* for len(high_impact_events).  score_stability is kept as its position   *)
(* relative to the two values the code compares it with, 0.75 and 0.85.    *)

WEIGHT_VOL == 40
WEIGHT_STRUCT == 30
WEIGHT_EDGE == 20
WEIGHT_RISK == 10
VOV_CRASH_ZSCORE == 250
VOV_WARNING_ZSCORE == 200
HIGH_VOL_IVP == 75
LOW_VOL_IVP == 25
GAMMA_DANGER_DTE == 1
FII_STRONG_LONG == 50000
FII_STRONG_SHORT == 0 - 50000
FII_MODERATE == 20000
MARGIN_SELL_BASE == 125000

VixMomenta == {"EXPLOSIVE_UP", "COLLAPSING", "RISING", "FALLING", "STABLE"}
GexRegimes == {"STICKY", "SLIPPERY", "NEUTRAL"}
Confidences == {"VERY_HIGH", "HIGH", "MODERATE", "LOW"}
StabilityBands == {"below_075", "at_075", "above_075", "above_085"}

RgAbs(x) == IF x < 0 THEN 0 - x ELSE x

\* The scores are not clamped.
RgClamp_Off(lo, hi, x) == x

RgClamp(lo, hi, x) == IF x < lo THEN lo ELSE IF x > hi THEN hi ELSE x

Weights(v, s, e, r) ==
    [vol_weight |-> v, struct_weight |-> s, edge_weight |-> e, risk_weight |-> r]

WeightsTotal(w) ==
    w.vol_weight + w.struct_weight + w.edge_weight + w.risk_weight

\* The metrics of a neutral day; the inputs below vary some of its fields.
NeutralMetrics ==
    [vov_zscore |-> 160, ivp_1yr |-> 50, vix_momentum |-> "STABLE",
     garch_above |-> FALSE, gex_regime |-> "NEUTRAL", pcr_atm |-> 120,
     skew_regime |-> "BALANCED", pain_near |-> FALSE,
     weighted_vrp_monthly |-> 0, term_structure_edge |-> 0,
     fii_net |-> 0, events |-> 0, dte |-> 28]

\* calculate_dynamic_weights, lines 28-72: the base weights and the
\* VoV / IVP branch that replaces them.
BranchWeights(m) ==
    IF m.vov_zscore > VOV_CRASH_ZSCORE THEN Weights(50, 25, 15, 10)
    ELSE IF m.vov_zscore > VOV_WARNING_ZSCORE THEN Weights(45, 28, 17, 10)
    ELSE IF m.ivp_1yr > HIGH_VOL_IVP THEN Weights(35, 35, 20, 10)
    ELSE IF m.ivp_1yr < LOW_VOL_IVP THEN Weights(30, 30, 30, 10)
    ELSE Weights(WEIGHT_VOL, WEIGHT_STRUCT, WEIGHT_EDGE, WEIGHT_RISK)

\* The VIX adjustment takes less from one weight than it gives the other.
VixShift_Unbalanced(w, m) ==
    IF m.vix_momentum = "EXPLOSIVE_UP"
    THEN [w EXCEPT !.vol_weight = @ + 5, !.edge_weight = @ - 4]
    ELSE IF m.vix_momentum = "COLLAPSING"
    THEN [w EXCEPT !.edge_weight = @ + 5, !.vol_weight = @ - 4]
    ELSE w

\* Lines 77-87: VIX momentum.
VixShift(w, m) ==
    IF m.vix_momentum = "EXPLOSIVE_UP"
    THEN [w EXCEPT !.vol_weight = @ + 5, !.edge_weight = @ - 5]
    ELSE IF m.vix_momentum = "COLLAPSING"
    THEN [w EXCEPT !.edge_weight = @ + 5, !.vol_weight = @ - 5]
    ELSE w

\* The GEX regime leaves the weights alone.
GexShift_None(w, m) == w

\* Lines 92-102: GEX regime.
GexShift(w, m) ==
    IF m.gex_regime = "STICKY"
    THEN [w EXCEPT !.struct_weight = @ + 5, !.vol_weight = @ - 5]
    ELSE IF m.gex_regime = "SLIPPERY"
    THEN [w EXCEPT !.vol_weight = @ + 5, !.struct_weight = @ - 5]
    ELSE w

\* Lines 107-112: gamma week.
GammaShift(w, m) ==
    IF m.dte <= GAMMA_DANGER_DTE
    THEN [w EXCEPT !.struct_weight = @ + 10, !.edge_weight = @ - 5,
                   !.risk_weight = @ - 5]
    ELSE w

\* Lines 117-121: FII positioning.
FiiShift(w, m) ==
    IF RgAbs(m.fii_net) > FII_STRONG_LONG
    THEN [w EXCEPT !.risk_weight = @ + 5, !.edge_weight = @ - 5]
    ELSE w

\* Lines 127-134: the weights are divided by their total when it is more
\* than 0.01 away from 1.
Normalize(w) ==
    LET total == WeightsTotal(w)
    IN  IF RgAbs(total - 100) > 1
        THEN Weights((w.vol_weight * 100) \div total,
                     (w.struct_weight * 100) \div total,
                     (w.edge_weight * 100) \div total,
                     (w.risk_weight * 100) \div total)
        ELSE w

calculate_dynamic_weights(m) ==
    Normalize(FiiShift(GammaShift(GexShift(VixShift(BranchWeights(m), m), m), m), m))

\* calculate_scores, lines 174-225: the vol score.
vol_score(m) ==
    LET vov == IF m.vov_zscore > VOV_CRASH_ZSCORE THEN 0
               ELSE IF m.vov_zscore > VOV_WARNING_ZSCORE THEN 50 - 30
               ELSE IF m.vov_zscore < 150 THEN 50 + 15
               ELSE 50
        ivp == IF m.ivp_1yr > HIGH_VOL_IVP
               THEN IF m.vix_momentum = "FALLING" THEN 15
                    ELSE IF m.vix_momentum = "RISING" THEN 0 - 10
                    ELSE 5
               ELSE IF m.ivp_1yr < LOW_VOL_IVP THEN 0 - 25
               ELSE 10
        vix == IF m.vix_momentum = "EXPLOSIVE_UP" THEN 0 - 20
               ELSE IF m.vix_momentum = "COLLAPSING" THEN 10
               ELSE 0
        garch == IF m.garch_above THEN 5 ELSE 0
    IN  RgClamp(0, 100, vov + ivp + vix + garch)

\* Lines 230-268: the structure score.
struct_score(m) ==
    LET gex == IF m.gex_regime = "STICKY" THEN 25
               ELSE IF m.gex_regime = "SLIPPERY" THEN 0 - 10
               ELSE 0
        pcr == IF 90 < m.pcr_atm /\ m.pcr_atm < 110 THEN 15
               ELSE IF m.pcr_atm > 130 THEN 5
               ELSE IF m.pcr_atm < 70 THEN 0 - 5
               ELSE 0
        skew == IF m.skew_regime = "CRASH_FEAR" THEN 0 - 10
                ELSE IF m.skew_regime = "MELT_UP" THEN 0 - 5
                ELSE 5
        pain == IF m.pain_near THEN 10 ELSE 0
    IN  RgClamp(0, 100, 50 + gex + pcr + skew + pain)

\* Lines 273-302: the edge score.
edge_score(m) ==
    LET vrp == IF m.weighted_vrp_monthly > 50 THEN 30
               ELSE IF m.weighted_vrp_monthly > 20 THEN 15
               ELSE IF m.weighted_vrp_monthly < 0 - 20 THEN 0 - 20
               ELSE 5
        term == IF m.term_structure_edge < 0 - 20 THEN 0 - 10
                ELSE IF m.term_structure_edge > 20 THEN 5
                ELSE 0
    IN  RgClamp(0, 100, 50 + vrp + term)

\* Lines 307-330: the risk score.
risk_score(m) ==
    LET fii == IF m.fii_net > FII_STRONG_LONG THEN 10
               ELSE IF m.fii_net < FII_STRONG_SHORT THEN 0 - 10
               ELSE IF RgAbs(m.fii_net) > FII_MODERATE
               THEN IF m.fii_net > 0 THEN 5 ELSE 0 - 5
               ELSE 0
        ev == IF m.events > 0
              THEN IF m.events * 5 < 20 THEN m.events * 5 ELSE 20
              ELSE 0
    IN  RgClamp(0, 100, 50 + fii - ev)

\* Sub-scores weighed: tenths times hundredths, in thousandths.
Weighed(m, w) ==
    vol_score(m) * w.vol_weight + struct_score(m) * w.struct_weight
        + edge_score(m) * w.edge_weight + risk_score(m) * w.risk_weight

\* Lines 351-369: score_stability = 1 - std / mean of the composite under
\* three fixed weight sets (0.5 when the mean is not positive).  With a, b,
\* c the three scores in fortieths, S their sum and V the sum of the
\* (3x - S)^2, (std / mean)^2 = V / (3 S^2).
score_stability(m) ==
    LET a == Weighed(m, Weights(30, 35, 25, 10)) \div 25
        b == Weighed(m, Weights(50, 25, 15, 10)) \div 25
        c == Weighed(m, Weights(35, 30, 25, 10)) \div 25
        S == a + b + c
        V == (3 * a - S) * (3 * a - S) + (3 * b - S) * (3 * b - S)
                 + (3 * c - S) * (3 * c - S)
    IN  IF S <= 0 THEN "below_075"
        ELSE IF 400 * V < 27 * S * S THEN "above_085"
        ELSE IF 16 * V < 3 * S * S THEN "above_075"
        ELSE IF 16 * V = 3 * S * S THEN "at_075"
        ELSE "below_075"

\* Lines 375-382.
confidence(composite, stability) ==
    IF composite >= 8000 /\ stability = "above_085" THEN "VERY_HIGH"
    ELSE IF composite >= 6500 /\ stability \in {"above_075", "above_085"}
    THEN "HIGH"
    ELSE IF composite >= 4000 THEN "MODERATE"
    ELSE "LOW"

calculate_scores(m) ==
    LET weights == calculate_dynamic_weights(m)
        composite == Weighed(m, weights)
        stability == score_stability(m)
    IN  [vol_score |-> vol_score(m), struct_score |-> struct_score(m),
         edge_score |-> edge_score(m), risk_score |-> risk_score(m),
         composite |-> composite,
         confidence |-> confidence(composite, stability),
         score_stability |-> stability, weights_used |-> weights]

\* The first row is taken only above 7.5.
VeryHighRow_Above(score) ==
    score.composite > 7500 /\ score.confidence \in {"HIGH", "VERY_HIGH"}

\* generate_mandate, line 446.
VeryHighRow(score) ==
    score.composite >= 7500 /\ score.confidence \in {"HIGH", "VERY_HIGH"}

\* Line 459.
HighRow(score) ==
    score.composite >= 6000 /\ score.confidence \in {"HIGH", "VERY_HIGH"}

\* Lines 446-492: the structure, its allocation percent and its warning.
SelectStrategy(score, m) ==
    IF VeryHighRow(score)
    THEN IF m.dte > 2
         THEN [suggested_structure |-> "IRON_CONDOR", allocation_pct |-> 60,
               warnings |-> <<>>, veto |-> FALSE]
         ELSE [suggested_structure |-> "IRON_FLY", allocation_pct |-> 50,
               warnings |-> <<"GAMMA_RISK">>, veto |-> FALSE]
    ELSE IF HighRow(score)
    THEN IF m.dte > 1
         THEN [suggested_structure |-> "IRON_CONDOR", allocation_pct |-> 40,
               warnings |-> <<>>, veto |-> FALSE]
         ELSE [suggested_structure |-> "IRON_FLY", allocation_pct |-> 35,
               warnings |-> <<"EXPIRY_RISK">>, veto |-> FALSE]
    ELSE IF score.composite >= 4000
    THEN [suggested_structure |->
              IF m.pcr_atm > 130 THEN "BULL_PUT_SPREAD"
              ELSE IF m.pcr_atm < 70 THEN "BEAR_CALL_SPREAD"
              ELSE "CREDIT_SPREAD",
          allocation_pct |-> 20,
          warnings |-> <<"LOWER_CONVICTION">>, veto |-> FALSE]
    ELSE [suggested_structure |-> "NO_TRADE", allocation_pct |-> 0,
          warnings |-> <<>>, veto |-> TRUE]

\* TradingMandate.is_trade_allowed as the dataclass declares it; the local
\* is_trade_allowed of generate_mandate (lines 429, 490) is not passed to
\* the constructor at 532-546.
DefaultTradeAllowed == TRUE

\* Lines 497-518: one size multiplier, with its warning, when it applies.
Penalty(applies, num, den, tag, a) ==
    IF applies
    THEN [allocation |-> (a.allocation * num) \div den,
          warnings |-> Append(a.warnings, tag)]
    ELSE a

\* Lines 494-546: the size multipliers, the deployment and its cap.
generate_mandate(score, m) ==
    LET sel == SelectStrategy(score, m)
        a0 == [allocation |-> sel.allocation_pct * 1000,
               warnings |-> sel.warnings]
        a1 == Penalty(m.vov_zscore > VOV_WARNING_ZSCORE, 7, 10, "HIGH_VOV", a0)
        a2 == Penalty(m.vix_momentum = "EXPLOSIVE_UP", 6, 10, "VIX_EXPLOSIVE", a1)
        a3 == Penalty(score.score_stability = "below_075", 8, 10,
                      "LOW_STABILITY", a2)
        a4 == IF m.events > 0
              THEN Penalty(TRUE, 85, 100, "HIGH_IMPACT_EVENTS", a3)
              ELSE a3
        allocation == RgClamp(0, 100000, a4.allocation)
        amount == ((BASE_CAPITAL \div 1000) * allocation) \div 100
        capped == amount > MAX_CAPITAL_PER_TRADE
        deployment == IF capped THEN MAX_CAPITAL_PER_TRADE ELSE amount
    IN  [suggested_structure |-> sel.suggested_structure,
         allocation_pct |-> sel.allocation_pct,
         allocation |-> allocation,
         deployment_amount |-> deployment,
         max_lots |-> deployment \div MARGIN_SELL_BASE,
         warnings |-> IF capped THEN Append(a4.warnings, "CAPITAL_CAPPED")
                      ELSE a4.warnings,
         low_score_veto |-> sel.veto,
         is_trade_allowed |-> DefaultTradeAllowed]

\* The metrics calculate_dynamic_weights is applied to.
WeightInputs ==
    {[NeutralMetrics EXCEPT !.vov_zscore = z, !.ivp_1yr = p,
                            !.vix_momentum = v, !.gex_regime = g,
                            !.dte = d, !.fii_net = f] :
        z \in {120, 200, 201, 250, 251}, p \in {10, 25, 50, 75, 82},
        v \in VixMomenta, g \in GexRegimes, d \in {0, 1, 2, 28},
        f \in {0 - 60000, 10000, 50000, 60000}}

\* The metrics calculate_scores and generate_mandate are applied to in turn.
ScoreInputs ==
    {[NeutralMetrics EXCEPT !.vov_zscore = z, !.ivp_1yr = p,
                            !.vix_momentum = v, !.garch_above = ga,
                            !.gex_regime = g, !.pcr_atm = 100,
                            !.pain_near = pn, !.weighted_vrp_monthly = vr,
                            !.term_structure_edge = te, !.fii_net = 10000,
                            !.dte = d] :
        z \in {120, 200}, p \in {25, 75, 82}, v \in {"STABLE", "FALLING"},
        ga \in BOOLEAN, g \in {"STICKY", "NEUTRAL"}, pn \in BOOLEAN,
        vr \in {0, 60}, te \in {0 - 30, 0, 30}, d \in {1, 28}}

\* Vol-spike days: VoV z 2.8, IVP 90, an explosive VIX, DTE 3, and every
\* kind of structure, edge and risk metrics.
SpikeInputs ==
    {[NeutralMetrics EXCEPT !.vov_zscore = 280, !.ivp_1yr = 90,
                            !.vix_momentum = "EXPLOSIVE_UP", !.dte = 3,
                            !.garch_above = ga, !.gex_regime = g,
                            !.pcr_atm = pc, !.skew_regime = sk,
                            !.pain_near = pn, !.weighted_vrp_monthly = vr,
                            !.term_structure_edge = te, !.fii_net = f,
                            !.events = ev] :
        ga \in BOOLEAN, g \in GexRegimes, pc \in {60, 100, 135},
        sk \in {"CRASH_FEAR", "MELT_UP", "BALANCED"}, pn \in BOOLEAN,
        vr \in {0 - 30, 0, 30, 60}, te \in {0 - 30, 0, 30},
        f \in {0 - 60000, 0, 30000, 60000}, ev \in {0, 1, 5}}

\* The scores and metrics generate_mandate is applied to on its own.
MandateInputs ==
    {[score |-> [composite |-> c, confidence |-> cf, score_stability |-> st],
      metrics |-> [NeutralMetrics EXCEPT !.dte = d, !.pcr_atm = pc,
                                         !.vov_zscore = z, !.events = ev]] :
        c \in {3999, 4000, 5999, 6000, 7499, 7500, 8100},
        cf \in Confidences, st \in {"below_075", "above_075"},
        d \in {0, 1, 2, 3, 28}, pc \in {60, 70, 100, 130, 135},
        z \in {120, 201}, ev \in {0, 1}}

RgInit ==
    /\ rg_call = "none"
    /\ rg_in = NeutralMetrics
    /\ rg_out = <<>>

\* A call of calculate_dynamic_weights.
RgDynamicWeights ==
    /\ rg_call = "none"
    /\ \E m \in WeightInputs :
        /\ rg_call' = "weights"
        /\ rg_in' = m
        /\ rg_out' = calculate_dynamic_weights(m)

\* calculate_scores, and generate_mandate on the Score it returned.
RgScoreAndMandate ==
    /\ rg_call = "none"
    /\ \E m \in ScoreInputs \cup SpikeInputs :
        LET score == calculate_scores(m)
        IN  /\ rg_call' = "scores"
            /\ rg_in' = m
            /\ rg_out' = [score |-> score, mandate |-> generate_mandate(score, m)]

\* A call of generate_mandate.
RgGenerateMandate ==
    /\ rg_call = "none"
    /\ \E i \in MandateInputs :
        /\ rg_call' = "mandate"
        /\ rg_in' = i
        /\ rg_out' = generate_mandate(i.score, i.metrics)

\* The caller has taken the result.
RgReturn ==
    /\ rg_call # "none"
    /\ rg_call' = "none"
    /\ rg_in' = NeutralMetrics
    /\ rg_out' = <<>>

-----------------------------------------------------------------------------
(* The strategy builders: StrategyFactory.generate and                     *)
(* StrategyBuilder.build_strategy.  Strikes are in index points, premiums  *)
(* in rupees.  The option chain is reduced to what the builders read of    *)
(* it: whether the strikes they look up are quoted, the premium of the     *)
(* strikes sold and of the strikes bought, and the distance between a sold *)
(* strike and the strike bought beyond it.                                 *)

\* The structure names of a mandate: the five generate_mandate can emit with
\* a trade, the two more build_strategy knows, and NO_TRADE.
TradeableStructures ==
    {"IRON_FLY", "IRON_CONDOR", "CREDIT_SPREAD", "BULL_PUT_SPREAD",
     "BEAR_CALL_SPREAD"}

Structures ==
    TradeableStructures \cup {"SHORT_STRADDLE", "RATIO_SPREAD", "NO_TRADE"}

Biases == {"NEUTRAL", "BULLISH", "BEARISH"}

\* The Nifty lot of the builder's credit arithmetic.
lot_size == 25

IRON_FLY_MIN_WING_WIDTH == 100
IRON_FLY_MAX_WING_WIDTH == 400

\* The fixed distances of build_iron_condor, build_credit_spread and
\* build_ratio_spread.
wing_width == 150
spread_width == 100
otm_distance == 200

\* The at-the-money strike, and the distance from it of a strike selected
\* by its delta.
AtmStrike == 24000
ShortOffset == 200

BdLots == {0, 1, 2, 6}
BdWidths == {50, 100, 400}
ShortPremiums == {0, 40, 120}
LongPremiums == {5, 30}

BuildInputs ==
    [suggested_structure : Structures, max_lots : BdLots,
     directional_bias : Biases, liquid : BOOLEAN, width : BdWidths,
     short_ltp : ShortPremiums, long_ltp : LongPremiums,
     is_uptrend : BOOLEAN]

IdleBuild ==
    [suggested_structure |-> "NO_TRADE", max_lots |-> 0,
     directional_bias |-> "NEUTRAL", liquid |-> FALSE, width |-> 50,
     short_ltp |-> 0, long_ltp |-> 5, is_uptrend |-> FALSE]

BdMax(a, b) == IF a >= b THEN a ELSE b
StrikeMax(S) == CHOOSE x \in S : \A y \in S : y <= x
StrikeMin(S) == CHOOSE x \in S : \A y \in S : y >= x

\* Python's round(x / 50) * 50: to the nearest multiple, a tie to the even
\* one.
Round50(x) ==
    LET q == x \div 50
        r == x % 50
    IN  IF r < 25 THEN 50 * q
        ELSE IF r > 25 THEN 50 * (q + 1)
        ELSE IF q % 2 = 0 THEN 50 * q ELSE 50 * (q + 1)

\* sum(l['ltp'] * l['qty'] for l in legs if l['side'] == side)
RECURSIVE Premium(_, _)
Premium(legs, side) ==
    IF legs = <<>> THEN 0
    ELSE (IF Head(legs).side = side THEN Head(legs).ltp * Head(legs).qty
          ELSE 0) + Premium(Tail(legs), side)

StrikesOf(legs, type, side) ==
    {legs[i].strike :
        i \in {j \in DOMAIN legs : legs[j].type = type /\ legs[j].side = side}}

\* max(call spread width, put spread width) x quantity minus the net
\* credit, before _calculate_defined_risk floors it at 0.
defined_risk_bound(legs, qty) ==
    LET net_credit == Premium(legs, "SELL") - Premium(legs, "BUY")
        ce_shorts == StrikesOf(legs, "CE", "SELL")
        ce_longs == StrikesOf(legs, "CE", "BUY")
        pe_shorts == StrikesOf(legs, "PE", "SELL")
        pe_longs == StrikesOf(legs, "PE", "BUY")
        call_risk == IF ce_shorts # {} /\ ce_longs # {}
                     THEN (StrikeMax(ce_longs) - StrikeMin(ce_shorts)) * qty
                     ELSE 0
        put_risk == IF pe_shorts # {} /\ pe_longs # {}
                    THEN (StrikeMax(pe_shorts) - StrikeMin(pe_longs)) * qty
                    ELSE 0
    IN  BdMax(call_risk, put_risk) - net_credit

\* StrategyFactory._calculate_defined_risk.
calculate_defined_risk(legs, qty) ==
    IF legs = <<>> THEN 0 ELSE BdMax(0, defined_risk_bound(legs, qty))

\* A leg of StrategyFactory: the chain's row, then side, role, qty and
\* structure.
Leg(strike, type, ltp, side, leg_role, qty, structure) ==
    [strike |-> strike, type |-> type, ltp |-> ltp, side |-> side,
     role |-> leg_role, qty |-> qty, structure |-> structure]

Built(legs, max_risk) == [legs |-> legs, max_risk |-> max_risk]

\* `return [], 0.0` of generate; build_strategy's None, which its caller
\* tests with `if not legs`.
NoLegs == Built(<<>>, 0)

\* StrategyFactory.generate.  _get_leg_details and _find_leg_by_delta return
\* no leg for a strike that is not quoted or has no premium.
generate(m) ==
    LET qty == m.max_lots * lot_size
        s == m.suggested_structure
        quoted == m.liquid /\ m.short_ltp > 0 /\ m.long_ltp > 0
        fly ==
            <<Leg(AtmStrike, "CE", m.short_ltp, "SELL", "CORE", qty, s),
              Leg(AtmStrike, "PE", m.short_ltp, "SELL", "CORE", qty, s),
              Leg(AtmStrike + m.width, "CE", m.long_ltp, "BUY", "HEDGE",
                  qty, s),
              Leg(AtmStrike - m.width, "PE", m.long_ltp, "BUY", "HEDGE",
                  qty, s)>>
        condor ==
            <<Leg(AtmStrike + ShortOffset, "CE", m.short_ltp, "SELL", "CORE",
                  qty, s),
              Leg(AtmStrike - ShortOffset, "PE", m.short_ltp, "SELL", "CORE",
                  qty, s),
              Leg(AtmStrike + ShortOffset + m.width, "CE", m.long_ltp, "BUY",
                  "HEDGE", qty, s),
              Leg(AtmStrike - ShortOffset - m.width, "PE", m.long_ltp, "BUY",
                  "HEDGE", qty, s)>>
        bull_put ==
            <<Leg(AtmStrike - ShortOffset, "PE", m.short_ltp, "SELL", "CORE",
                  qty, "BULL_PUT_SPREAD"),
              Leg(AtmStrike - ShortOffset - m.width, "PE", m.long_ltp, "BUY",
                  "HEDGE", qty, "BULL_PUT_SPREAD")>>
        bear_call ==
            <<Leg(AtmStrike + ShortOffset, "CE", m.short_ltp, "SELL", "CORE",
                  qty, "BEAR_CALL_SPREAD"),
              Leg(AtmStrike + ShortOffset + m.width, "CE", m.long_ltp, "BUY",
                  "HEDGE", qty, "BEAR_CALL_SPREAD")>>
        legs ==
            IF s = "IRON_FLY" THEN fly
            ELSE IF s = "IRON_CONDOR" THEN condor
            ELSE IF s \in {"CREDIT_SPREAD", "BULL_PUT_SPREAD",
                           "BEAR_CALL_SPREAD"}
            THEN IF \/ m.is_uptrend
                    \/ m.directional_bias \in {"BULLISH", "MILDLY_BULLISH"}
                 THEN bull_put ELSE bear_call
            ELSE <<>>
        max_risk == calculate_defined_risk(legs, qty)
    IN  IF m.max_lots = 0 \/ ~m.liquid THEN NoLegs
        ELSE IF legs = <<>> \/ ~quoted THEN NoLegs
        ELSE IF max_risk > MAX_LOSS_PER_TRADE THEN NoLegs
        ELSE Built(legs, max_risk)

\* A leg of StrategyBuilder; its quantity is in lots.
BLeg(side, option_type, strike, ltp, quantity, leg_role) ==
    [side |-> side, option_type |-> option_type, strike |-> strike,
     ltp |-> ltp, quantity |-> quantity, role |-> leg_role]

\* StrategyBuilder.build_iron_fly: the wings found must be 100 to 400 points
\* away, the two sold legs need a premium, the two bought only a quote.
build_iron_fly(m) ==
    IF \/ ~m.liquid
       \/ m.width < IRON_FLY_MIN_WING_WIDTH
       \/ m.width > IRON_FLY_MAX_WING_WIDTH
       \/ m.short_ltp = 0
    THEN <<>>
    ELSE <<BLeg("SELL", "CE", AtmStrike, m.short_ltp, m.max_lots,
                "SHORT_CALL"),
           BLeg("SELL", "PE", AtmStrike, m.short_ltp, m.max_lots,
                "SHORT_PUT"),
           BLeg("BUY", "CE", AtmStrike + m.width, m.long_ltp, m.max_lots,
                "LONG_CALL_WING"),
           BLeg("BUY", "PE", AtmStrike - m.width, m.long_ltp, m.max_lots,
                "LONG_PUT_WING")>>

\* StrategyBuilder.build_iron_condor.
build_iron_condor(m) ==
    LET sell_call_strike == AtmStrike + ShortOffset
        sell_put_strike == AtmStrike - ShortOffset
        buy_call_strike == Round50(sell_call_strike + wing_width)
        buy_put_strike == Round50(sell_put_strike - wing_width)
    IN  IF ~m.liquid THEN <<>>
        ELSE <<BLeg("SELL", "CE", sell_call_strike, m.short_ltp, m.max_lots,
                    "SHORT_CALL"),
               BLeg("SELL", "PE", sell_put_strike, m.short_ltp, m.max_lots,
                    "SHORT_PUT"),
               BLeg("BUY", "CE", buy_call_strike, m.long_ltp, m.max_lots,
                    "LONG_CALL_WING"),
               BLeg("BUY", "PE", buy_put_strike, m.long_ltp, m.max_lots,
                    "LONG_PUT_WING")>>

\* StrategyBuilder.build_credit_spread: the side follows the mandate's
\* directional_bias alone.
build_credit_spread(m) ==
    LET is_bullish == m.directional_bias \in {"BULLISH", "BULL"}
        option_type == IF is_bullish THEN "PE" ELSE "CE"
        sell_strike == IF is_bullish THEN AtmStrike - ShortOffset
                       ELSE AtmStrike + ShortOffset
        buy_strike == Round50(IF is_bullish THEN sell_strike - spread_width
                              ELSE sell_strike + spread_width)
    IN  IF ~m.liquid THEN <<>>
        ELSE <<BLeg("SELL", option_type, sell_strike, m.short_ltp,
                    m.max_lots, "SHORT"),
               BLeg("BUY", option_type, buy_strike, m.long_ltp, m.max_lots,
                    "LONG")>>

\* StrategyBuilder.build_short_straddle.
build_short_straddle(m) ==
    IF ~m.liquid THEN <<>>
    ELSE <<BLeg("SELL", "CE", AtmStrike, m.short_ltp, m.max_lots,
                "SHORT_CALL"),
           BLeg("SELL", "PE", AtmStrike, m.short_ltp, m.max_lots,
                "SHORT_PUT")>>

\* StrategyBuilder.build_ratio_spread: one bought at the money, two sold 200
\* points out.
build_ratio_spread(m) ==
    LET is_bullish == m.directional_bias \in {"BULLISH", "BULL"}
        option_type == IF is_bullish THEN "CE" ELSE "PE"
        otm_strike == Round50(IF is_bullish THEN AtmStrike + otm_distance
                              ELSE AtmStrike - otm_distance)
    IN  IF ~m.liquid THEN <<>>
        ELSE <<BLeg("BUY", option_type, AtmStrike, m.long_ltp, m.max_lots,
                    "LONG"),
               BLeg("SELL", option_type, otm_strike, m.short_ltp,
                    m.max_lots * 2, "SHORT")>>

\* `name in strategy_type`: none of the structure names contains another,
\* so the substring test is an equality on them.
Mentions(strategy_type, name) == strategy_type = name

\* StrategyBuilder.build_strategy.
build_strategy(m) ==
    LET strategy_type == m.suggested_structure
    IN  IF Mentions(strategy_type, "IRON_FLY") THEN build_iron_fly(m)
        ELSE IF Mentions(strategy_type, "IRON_CONDOR")
        THEN build_iron_condor(m)
        ELSE IF Mentions(strategy_type, "CREDIT_SPREAD")
        THEN build_credit_spread(m)
        ELSE IF Mentions(strategy_type, "SHORT_STRADDLE")
        THEN build_short_straddle(m)
        ELSE IF Mentions(strategy_type, "RATIO_SPREAD")
        THEN build_ratio_spread(m)
        ELSE <<>>

\* The builder's legs in the factory's terms: quantity in units of the
\* underlying, as the builder's own net credit counts it (x 25).
AsUnits(legs) ==
    [i \in DOMAIN legs |->
        [strike |-> legs[i].strike, type |-> legs[i].option_type,
         ltp |-> legs[i].ltp, side |-> legs[i].side,
         qty |-> legs[i].quantity * lot_size]]

BdInit ==
    /\ bd_call = "none"
    /\ bd_in = IdleBuild
    /\ bd_out = NoLegs

\* A call of StrategyFactory.generate.
BdGenerate ==
    /\ bd_call = "none"
    /\ \E m \in BuildInputs :
        /\ bd_call' = "generate"
        /\ bd_in' = m
        /\ bd_out' = generate(m)

\* A call of StrategyBuilder.build_strategy, as the execute-strategy route
\* makes it with the mandate of the request.
BdBuildStrategy ==
    /\ bd_call = "none"
    /\ \E m \in BuildInputs :
        /\ bd_call' = "build_strategy"
        /\ bd_in' = m
        /\ bd_out' = Built(build_strategy(m), 0)

BdReturn ==
    /\ bd_call # "none"
    /\ bd_call' = "none"
    /\ bd_in' = IdleBuild
    /\ bd_out' = NoLegs

-----------------------------------------------------------------------------
(* OrderOrchestrator.exit_strategy in detail: the status test, one         *)
(* _execute_leg per entry leg, the update to CLOSED.  The exit-trade route *)
(* and the position monitor's auto-exit each make the call with an         *)
(* orchestrator of their own over the same store.                          *)

ExitCallers == {"manual", "monitor"}

\* The legs of the OPEN trade as save_leg stored them.
ExitEntryLegs ==
    <<[side |-> "SELL", filled_qty |-> 100],
      [side |-> "BUY", filled_qty |-> 100]>>

ExitLegIds == DOMAIN ExitEntryLegs

XsInit ==
    /\ xs_status = "OPEN"
    /\ xs_pc = [c \in ExitCallers |-> "idle"]
    /\ xs_idx = [c \in ExitCallers |-> 0]
    /\ xs_exit_legs = [c \in ExitCallers |-> {}]
    /\ xs_orders = [c \in ExitCallers |-> {}]
    /\ xs_filled = [l \in ExitLegIds |-> 0]
    /\ xs_ret = [c \in ExitCallers |-> "none"]

\* get_trade and the status test: a trade that is not OPEN returns False.
XsCall(c) ==
    /\ xs_pc[c] = "idle"
    /\ IF ExitAllowed(xs_status)
       THEN /\ xs_pc' = [xs_pc EXCEPT ![c] = "legs"]
            /\ xs_idx' = [xs_idx EXCEPT ![c] = 1]
            /\ UNCHANGED xs_ret
       ELSE /\ xs_pc' = [xs_pc EXCEPT ![c] = "done"]
            /\ xs_ret' = [xs_ret EXCEPT ![c] = "False"]
            /\ UNCHANGED xs_idx
    /\ UNCHANGED <<xs_status, xs_exit_legs, xs_orders, xs_filled>>

\* One iteration of `for leg in legs`: the reversing leg of quantity
\* filled_qty goes to _execute_leg; a success is appended to exit_legs, a
\* failure is logged and the loop continues with the other legs.
XsExitLeg(c) ==
    /\ xs_pc[c] = "legs"
    /\ \E o \in LegOutcomes :
         LET i == xs_idx[c]
             leg == ExitEntryLegs[i]
             success == /\ o.kind = "complete"
                        /\ OrchAccepts(exit_side(leg.side), o.filled,
                                       leg.filled_qty)
         IN  /\ xs_orders' = IF o.kind = "dead" THEN xs_orders
                             ELSE [xs_orders EXCEPT ![c] = @ \cup {i}]
             /\ xs_filled' = [xs_filled EXCEPT ![i] = @ + o.filled]
             /\ xs_exit_legs' = IF success
                                THEN [xs_exit_legs EXCEPT ![c] = @ \cup {i}]
                                ELSE xs_exit_legs
             /\ IF i < Len(ExitEntryLegs)
                THEN /\ xs_idx' = [xs_idx EXCEPT ![c] = i + 1]
                     /\ UNCHANGED xs_pc
                ELSE /\ xs_pc' = [xs_pc EXCEPT ![c] = "update"]
                     /\ UNCHANGED xs_idx
    /\ UNCHANGED <<xs_status, xs_ret>>

\* _calculate_realized_pnl and update_trade(status="CLOSED", ...), then
\* `return True`; an exception on the way is caught and False returned.
XsUpdate(c) ==
    /\ xs_pc[c] = "update"
    /\ \E raised \in BOOLEAN :
         IF raised
         THEN /\ xs_ret' = [xs_ret EXCEPT ![c] = "False"]
              /\ UNCHANGED xs_status
         ELSE /\ xs_status' = "CLOSED"
              /\ xs_ret' = [xs_ret EXCEPT ![c] = "True"]
    /\ xs_pc' = [xs_pc EXCEPT ![c] = "done"]
    /\ UNCHANGED <<xs_idx, xs_exit_legs, xs_orders, xs_filled>>

-----------------------------------------------------------------------------
(* The circuit breaker of RiskManager over several instances and the one   *)
(* store.  Every request of the API constructs an instance of its own.     *)

MaxInstances == 3

BrInstances == 1 .. MaxInstances

BrInit ==
    /\ br_store = "none"
    /\ br_mem = [i \in BrInstances |-> FALSE]
    /\ br_made = {}
    /\ br_last = [op |-> "none", instance |-> 0]

\* StateRepository.get_state(key, default).
get_state(stored, default) == IF stored = "none" THEN default ELSE stored

\* RiskManager.is_circuit_breaker_active of instance i.
is_circuit_breaker_active(i) ==
    br_mem[i] \/ get_state(br_store, "false") = "true"

\* RiskManager(conn): the flag starts False whatever the store holds.
BrNew(i) ==
    /\ i \notin br_made
    /\ br_made' = br_made \cup {i}
    /\ br_mem' = [br_mem EXCEPT ![i] = FALSE]
    /\ br_last' = [op |-> "new", instance |-> i]
    /\ UNCHANGED br_store

\* activate_circuit_breaker(reason) on instance i: nothing happens when the
\* instance's own flag is already set.
BrActivate(i) ==
    /\ i \in br_made
    /\ IF ~br_mem[i]
       THEN /\ br_mem' = [br_mem EXCEPT ![i] = TRUE]
            /\ br_store' = "true"
       ELSE UNCHANGED <<br_mem, br_store>>
    /\ br_last' = [op |-> "activate", instance |-> i]
    /\ UNCHANGED br_made

\* deactivate_circuit_breaker() on instance i: nothing happens when the
\* instance's own flag is not set.
BrDeactivate(i) ==
    /\ i \in br_made
    /\ IF br_mem[i]
       THEN /\ br_mem' = [br_mem EXCEPT ![i] = FALSE]
            /\ br_store' = "false"
       ELSE UNCHANGED <<br_mem, br_store>>
    /\ br_last' = [op |-> "deactivate", instance |-> i]
    /\ UNCHANGED br_made

-----------------------------------------------------------------------------
(* Properties of ExecutionEngine.execute_strategy (SpecExec).              *)

\* Nothing of leg l is left open by the system: the broker holds no
\* position for it, or _flatten_legs tried every reversing order, gave up
\* and raised its FAILED TO CLOSE alert (the broker's refusal, not the
\* code's omission).
NotLeftOpen(l) == Position(l) = 0 \/ l \in flatFailed

\* C1: after execute_strategy has returned, either it returned all the
\* requested legs, each with filled_qty > 0, or it returned empty and no leg
\* of the strategy is left holding a filled position at the broker.
C1_AllOrNothing ==
    (mainPc = "done" /\ returned # "raised") =>
        \/ returned = "legs" /\ \A l \in Legs : leg_filled_qty[l] > 0
        \/ returned = "empty" /\ \A l \in Legs : NotLeftOpen(l)

\* C2: when one hedge leg has failed, every other hedge leg that filled has
\* been reversed by the time execute_strategy has returned, whatever the
\* order in which the hedge workers completed.
C2_FilledHedgesReversed ==
    (mainPc = "done" /\ \E f \in Hedges : wres[f] = "fail") =>
        \A h \in Hedges : wres[h] = "ok" => NotLeftOpen(h)

\* C3: a core order is submitted only when every hedge worker has finished
\* and returned its leg; after a failed hedge no core order exists.
C3_HedgeBarrier ==
    \A c \in Cores :
        (wpc[c] # "idle" \/ ordStatus[c] # "none") =>
            \A h \in Hedges : wpc[h] = "done" /\ wres[h] = "ok"

\* A core order is working at the broker.
C3_Witness == \E c \in Cores : ordStatus[c] = "open"

\* C4: all hedges filled and a core completed below 95% of its quantity:
\* once execute_strategy has returned, both hedges and the partial quantity
\* of that core are reversed, so nothing is held at the broker.
C4_PartialCoreFlattened ==
    (/\ mainPc = "done"
     /\ \A h \in Hedges : wres[h] = "ok"
     /\ \E c \in Cores : c \in consumed /\ wlog[c] = "PARTIAL_REJECTED") =>
        \A l \in Legs : NotLeftOpen(l)

\* C6: every leg the leg-execution primitive reports as filled has
\* filled_qty <= requested and filled_qty >= 98% (hedge) or 95% (core) of
\* the requested quantity, on every acceptance path.
C6_AcceptedFillWithinTolerance ==
    \A l \in Legs :
        wres[l] = "ok" =>
            /\ leg_filled_qty[l] <= LegQty[l]
            /\ ~BelowThreshold(l, leg_filled_qty[l])

\* C15: when a pre-flight check of execute_strategy fails, it returns the
\* empty list and no order was placed: no worker ran and the broker holds no
\* order of the strategy.
C15_PreflightFailurePlacesNothing ==
    preflight.failed \notin {"pending", "none"} =>
        /\ returned = "empty"
        /\ \A l \in Legs : wpc[l] = "idle" /\ ordStatus[l] = "none"

\* C15's case: the margin query failed (Infinity) and the strategy was
\* turned down.
C15_Witness ==
    /\ preflight.failed = "margin"
    /\ preflight.input.required_margin = Infinity
    /\ mainPc = "done"

\* C16: when the circuit breaker is not active at the call, validate_trade
\* runs all nine checks and returns every violation found, in the order of the
\* checks; when it is active, only the circuit-breaker check runs and its
\* violation is the whole list.
C16_AllChecksRunUnlessBreakerActive ==
    v_ran # <<>> =>
        IF v_active_at_call
        THEN v_ran = <<"circuit_breaker">> /\ v_violations = <<"circuit_breaker">>
        ELSE /\ Len(v_ran) = 9
             /\ {v_violations[i] : i \in DOMAIN v_violations} = v_failing

\* C16's case: a call with the breaker off in which several checks failed.
C16_Witness ==
    /\ v_ran # <<>>
    /\ ~v_active_at_call
    /\ v_failing = {"capital", "veto", "max_capital"}
    /\ v_violations = <<"capital", "veto", "max_capital">>

\* C16 as the specification words it: every call runs all nine checks and
\* returns every violation, the circuit-breaker one included.
C16_AllChecksRunOnEveryCall ==
    v_ran # <<>> =>
        /\ Len(v_ran) = 9
        /\ v_failing \subseteq {v_violations[i] : i \in DOMAIN v_violations}

\* C19: whenever a veto event lies within the next 48 hours (hours_until in
\* (0, 48]), the veto check reports a violation.
C19_VetoWithin48hBlocks ==
    (/\ veto_call.called
     /\ \E e \in veto_call.events :
            e.is_veto_event /\ e.hours_until > 0 /\ e.hours_until <= 48)
        => ~veto_call.is_ok

C18_DeployedCapitalBounded ==
    SumOver(lim_mandate, get_open_trades(lim_status)) * 100
        <= BASE_CAPITAL * MAX_CAPITAL_USAGE

\* The loop is past leg i.
FlLegOver(i) == i < fl_idx \/ (fl_pc = "done" /\ i <= Len(fl_legs))

\* Per leg: at most 2 market orders and 3 limit orders, limit orders only
\* after both market tries, each at 10% through the reference price (to the
\* rounding of 10 paise); a leg the loop is past was skipped, or closed, or
\* has both the alert and the risk event.
FlBounded ==
    \A i \in 1 .. Len(fl_legs) :
        LET leg == fl_legs[i] IN
        /\ fl_market[i] <= 2 /\ fl_limit[i] <= 3
        /\ leg.filled_qty <= 0 => fl_market[i] + fl_limit[i] = 0
        /\ fl_limit[i] > 0 =>
               LET through == IF leg.side = "SELL" THEN 110 ELSE 90
                   d == fl_price[i] * 100 - leg.ref_price * through
               IN  d <= 1000 /\ d >= -1000
        /\ (i \in fl_alerts) = (i \in fl_events)
        /\ (FlLegOver(i) /\ leg.filled_qty > 0) =>
               (i \in fl_success) # (i \in fl_alerts)
        /\ ~FlLegOver(i) => i \notin fl_alerts
        /\ (i = fl_idx /\ fl_pc = "market") => fl_limit[i] = 0

\* Nothing more is ordered for a leg once one of its orders was seen
\* complete.
FlStopsOnComplete ==
    \A i \in fl_success :
        fl_market'[i] = fl_market[i] /\ fl_limit'[i] = fl_limit[i]

FlPlaces(i) == fl_market'[i] + fl_limit'[i] > fl_market[i] + fl_limit[i]

\* C35: _flatten_legs never has more than filled_qty of a leg in reversing
\* orders that can fill: a reversing order is placed for a leg only when no
\* earlier one of that leg is left working at the broker (each was seen
\* complete, which ends the leg, or is cancelled or dead).
C35_OneReversalAtATime ==
    [][\A i \in FlLegIds : FlPlaces(i) => i \notin fl_live]_vars

\* C21: one call of place_order leaves at most one order at the broker.
C21_AtMostOneOrderPerCall == po_orders <= 1

\* C22: a leg accepted as filled with slippage above 2% has exactly one
\* slippage event recorded with the circuit breaker, on every path.
C22_SlippageAlwaysReported ==
    (sl_leg.path # "none" /\ ExceedsTolerance(sl_leg.expected, sl_leg.avg))
        => sl_reported = 1

C24_RefreshSerialized ==
    /\ Cardinality(RefreshesInFlight) <= 1
    /\ \A t \in SmWorkers : sm_pc[t] = "read_token" => ~HalfUpdated

\* The legs aggregated so far whose entry was missing or at least
\* GREEKS_MAX_AGE seconds old when the leg was read.
StaleDone ==
    {i \in 1 .. Len(gp_done) :
        gp_done[i].age = -1 \/ gp_done[i].age >= GREEKS_MAX_AGE}

\* The sum of the notional deltas of the legs in a set of positions.
RECURSIVE DeltaOver(_)
DeltaOver(idx) ==
    IF idx = {} THEN 0
    ELSE LET i == CHOOSE j \in idx : TRUE
             d == gp_done[i]
         IN  d.delta.delta * d.leg.qty * side_mult(d.leg)
                 + DeltaOver(idx \ {i})

C26_ResubscribedToNewKeys ==
    \A keys \in WsKeySets \ {{}} :
        (subscribed_keys = keys /\ us_pc = "check")
            ~> (StreamingOn(keys) \/ subscribed_keys # keys)

\* C27: the four weights calculate_dynamic_weights returns sum to 1.
C27_WeightsSumToOne ==
    rg_call = "weights" => WeightsTotal(rg_out) = 100

\* C27's case: every adjustment has applied (VoV crash, explosive VIX,
\* slippery GEX, gamma week, strong FII) and the weights returned are
\* {0.60, 0.30, 0.00, 0.10}.
C27_Witness ==
    /\ rg_call = "weights"
    /\ rg_in.vov_zscore > VOV_CRASH_ZSCORE
    /\ rg_in.vix_momentum = "EXPLOSIVE_UP"
    /\ rg_in.gex_regime = "SLIPPERY"
    /\ rg_in.dte <= GAMMA_DANGER_DTE
    /\ rg_in.fii_net > FII_STRONG_LONG
    /\ rg_out = Weights(60, 30, 0, 10)

\* The vol score of a day with VoV z <= 2.0 and a stable VIX, given the
\* IVP adjustment.
CalmVolScore(m, ivp_adjustment) ==
    RgClamp(0, 100, (IF m.vov_zscore < 150 THEN 65 ELSE 50) + ivp_adjustment
                        + (IF m.garch_above THEN 5 ELSE 0))

\* The call is calculate_scores on a calm day on which no later weight
\* adjustment applies: VoV z <= 2.0, stable VIX, neutral GEX, DTE above the
\* gamma week, FII within 50,000.
CalmScoresCall ==
    /\ rg_call = "scores"
    /\ rg_in.vov_zscore <= VOV_WARNING_ZSCORE
    /\ rg_in.vix_momentum = "STABLE"
    /\ rg_in.gex_regime = "NEUTRAL"
    /\ rg_in.dte > GAMMA_DANGER_DTE
    /\ RgAbs(rg_in.fii_net) <= FII_STRONG_LONG

\* C28: with ivp_1yr exactly 75 the scorer takes the rich-IV branch (weights
\* {0.35, 0.35, 0.20, 0.10}, vol score +0.5), and with ivp_1yr exactly 25
\* the cheap-IV branch (weights {0.30, 0.30, 0.30, 0.10}, vol score -2.5).
C28_ThresholdsAreInclusive ==
    CalmScoresCall =>
        /\ rg_in.ivp_1yr = 75 =>
              /\ rg_out.score.weights_used = Weights(35, 35, 20, 10)
              /\ rg_out.score.vol_score = CalmVolScore(rg_in, 5)
        /\ rg_in.ivp_1yr = 25 =>
              /\ rg_out.score.weights_used = Weights(30, 30, 30, 10)
              /\ rg_out.score.vol_score = CalmVolScore(rg_in, 0 - 25)

\* The rows of the selection table, as the specification lists them.
MandateTable(composite, conf, dte, pcr_atm) ==
    LET high == conf \in {"HIGH", "VERY_HIGH"}
    IN  IF composite >= 7500 /\ high
        THEN IF dte > 2 THEN <<"IRON_CONDOR", 60, <<>>>>
             ELSE <<"IRON_FLY", 50, <<"GAMMA_RISK">>>>
        ELSE IF composite >= 6000 /\ high
        THEN IF dte > 1 THEN <<"IRON_CONDOR", 40, <<>>>>
             ELSE <<"IRON_FLY", 35, <<"EXPIRY_RISK">>>>
        ELSE IF composite >= 4000
        THEN IF pcr_atm > 130 THEN <<"BULL_PUT_SPREAD", 20, <<"LOWER_CONVICTION">>>>
             ELSE IF pcr_atm < 70 THEN <<"BEAR_CALL_SPREAD", 20, <<"LOWER_CONVICTION">>>>
             ELSE <<"CREDIT_SPREAD", 20, <<"LOWER_CONVICTION">>>>
        ELSE <<"NO_TRADE", 0, <<>>>>

\* The first warning of a mandate, if the selection gave one.
SelectionWarnings(mandate) ==
    IF mandate.warnings # <<>>
           /\ Head(mandate.warnings) \in
                  {"GAMMA_RISK", "EXPIRY_RISK", "LOWER_CONVICTION"}
    THEN <<Head(mandate.warnings)>>
    ELSE <<>>

\* C29: generate_mandate selects the structure, the allocation percent and
\* the selection warning by the table; a composite of exactly 7.5 with High
\* confidence is in the first row, and at DTE 0 the structure is never
\* IRON_CONDOR.
C29_MandateFollowsTable ==
    rg_call = "mandate" =>
        /\ <<rg_out.suggested_structure, rg_out.allocation_pct,
             SelectionWarnings(rg_out)>>
               = MandateTable(rg_in.score.composite, rg_in.score.confidence,
                              rg_in.metrics.dte, rg_in.metrics.pcr_atm)
        /\ (rg_in.score.composite = 7500 /\ rg_in.score.confidence = "HIGH")
               => rg_out.allocation_pct \in {50, 60}
        /\ rg_in.metrics.dte = 0 => rg_out.suggested_structure # "IRON_CONDOR"

\* C29's case: composite exactly 7.5 with High confidence at DTE 0 gave
\* IRON_FLY at 50% with the gamma warning.
C29_Witness ==
    /\ rg_call = "mandate"
    /\ rg_in.score.composite = 7500
    /\ rg_in.score.confidence = "HIGH"
    /\ rg_in.metrics.dte = 0
    /\ rg_out.suggested_structure = "IRON_FLY"
    /\ rg_out.allocation_pct = 50
    /\ Head(rg_out.warnings) = "GAMMA_RISK"

\* Scenario S1: ivp_1yr 82, VoV z 1.2, sticky GEX, PCR_atm 1.0, balanced
\* skew, VRP 6, FII net 10,000, DTE 28, stable VIX, no events.
ScenarioS1 ==
    /\ rg_call = "scores"
    /\ rg_in.ivp_1yr = 82
    /\ rg_in.vov_zscore = 120
    /\ rg_in.gex_regime = "STICKY"
    /\ rg_in.pcr_atm = 100
    /\ rg_in.skew_regime = "BALANCED"
    /\ rg_in.weighted_vrp_monthly = 60
    /\ rg_in.fii_net = 10000
    /\ rg_in.dte = 28
    /\ rg_in.vix_momentum = "STABLE"
    /\ rg_in.events = 0

\* C30 (as the code has it): for scenario S1 the weights are {0.30, 0.40,
\* 0.20, 0.10} (the rich-IV set shifted by the sticky GEX), the mandate is
\* IRON_CONDOR at 60% with no size multiplier applied, and the deployment of
\* 600,000 is capped at MAX_CAPITAL_PER_TRADE with the one warning of that.
C30_ScenarioS1Capped ==
    ScenarioS1 =>
        /\ rg_out.score.weights_used = Weights(30, 40, 20, 10)
        /\ rg_out.mandate.suggested_structure = "IRON_CONDOR"
        /\ rg_out.mandate.allocation_pct = 60
        /\ rg_out.mandate.allocation = 60000
        /\ rg_out.mandate.deployment_amount = MAX_CAPITAL_PER_TRADE
        /\ rg_out.mandate.warnings = <<"CAPITAL_CAPPED">>

\* C30's case: scenario S1 has been scored and its mandate generated.
C30_Witness ==
    /\ ScenarioS1
    /\ rg_out.score.composite >= 7500
    /\ rg_out.mandate.suggested_structure = "IRON_CONDOR"

\* C30 as the specification words it: weights {0.35, 0.35, 0.20, 0.10},
\* IRON_CONDOR at 60%, no size penalty, no warnings.
C30_ScenarioS1 ==
    ScenarioS1 =>
        /\ rg_out.score.weights_used = Weights(35, 35, 20, 10)
        /\ rg_out.mandate.suggested_structure = "IRON_CONDOR"
        /\ rg_out.mandate.allocation = 60000
        /\ rg_out.mandate.warnings = <<>>

\* C31: in a vol spike (VoV z > 2.5) the vol score is 0 and the mandate is
\* NO_TRADE with the low-composite veto and the high-VoV warning, whatever
\* the other metrics are.
C31_VolSpikeMeansNoTrade ==
    (rg_call = "scores" /\ rg_in.vov_zscore > VOV_CRASH_ZSCORE) =>
        /\ rg_out.score.vol_score = 0
        /\ rg_out.mandate.suggested_structure = "NO_TRADE"
        /\ rg_out.mandate.low_score_veto
        /\ \E i \in 1 .. Len(rg_out.mandate.warnings) :
               rg_out.mandate.warnings[i] = "HIGH_VOV"

C39_NoTradeIsNotTradeable ==
    rg_call \in {"scores", "mandate"} =>
        LET mandate == IF rg_call = "scores" THEN rg_out.mandate ELSE rg_out
        IN  /\ mandate.deployment_amount <= MAX_CAPITAL_PER_TRADE
            /\ mandate.suggested_structure = "NO_TRADE" =>
                  /\ mandate.allocation = 0
                  /\ mandate.deployment_amount = 0
                  /\ mandate.max_lots = 0
                  /\ mandate.low_score_veto
                  /\ ~mandate.is_trade_allowed

-----------------------------------------------------------------------------
(* Properties of the strategy builders (SpecBuild).                        *)

\* C32: a builder returns non-empty legs only if max(call spread width, put
\* spread width) x quantity minus the net credit is at most
\* MAX_LOSS_PER_TRADE, and empty legs otherwise, for StrategyFactory.generate
\* and for every structure StrategyBuilder.build_strategy builds.
C32_BuiltWithinMaxLoss ==
    /\ (bd_call = "generate" /\ bd_out.legs # <<>>) =>
            defined_risk_bound(bd_out.legs, bd_in.max_lots * lot_size)
                <= MAX_LOSS_PER_TRADE
    /\ (bd_call = "build_strategy" /\ bd_out.legs # <<>>) =>
            defined_risk_bound(AsUnits(bd_out.legs), bd_in.max_lots * lot_size)
                <= MAX_LOSS_PER_TRADE

\* The strikes of the mandate's structure are quoted with a premium, and the
\* wings of an iron fly are found at a permitted distance.
Buildable ==
    /\ bd_in.liquid
    /\ bd_in.short_ltp > 0
    /\ bd_in.max_lots > 0
    /\ bd_in.width >= IRON_FLY_MIN_WING_WIDTH

\* C40: build_strategy dispatches each tradeable structure of the regime
\* engine to a builder, and a BULL_PUT_SPREAD mandate yields put legs, a
\* BEAR_CALL_SPREAD mandate call legs, from build_strategy and from generate.
C40_StructuresAreBuilt ==
    /\ (/\ bd_call = "build_strategy"
        /\ bd_in.suggested_structure \in TradeableStructures
        /\ Buildable) =>
            /\ bd_out.legs # <<>>
            /\ bd_in.suggested_structure = "BULL_PUT_SPREAD" =>
                    \A i \in DOMAIN bd_out.legs :
                        bd_out.legs[i].option_type = "PE"
            /\ bd_in.suggested_structure = "BEAR_CALL_SPREAD" =>
                    \A i \in DOMAIN bd_out.legs :
                        bd_out.legs[i].option_type = "CE"
    /\ bd_call = "generate" =>
            /\ bd_in.suggested_structure = "BULL_PUT_SPREAD" =>
                    \A i \in DOMAIN bd_out.legs : bd_out.legs[i].type = "PE"
            /\ bd_in.suggested_structure = "BEAR_CALL_SPREAD" =>
                    \A i \in DOMAIN bd_out.legs : bd_out.legs[i].type = "CE"

-----------------------------------------------------------------------------
(* Properties of _execute_leg_atomic after its timeout (SpecExec).         *)

\* C34: a leg that _execute_leg_atomic reports as failed after the timeout
\* leaves nothing live at the broker: its order is cancelled (or was
\* rejected), so it is neither working nor filled; an order that filled is
\* returned as a filled leg instead.
C34_TimedOutLegIsDead ==
    \A l \in Legs :
        (wpc[l] = "done" /\ wlog[l] = "TIMEOUT") =>
            ordStatus[l] \in {"cancelled", "rejected"}

-----------------------------------------------------------------------------
(* Properties of exit_strategy, leg by leg (SpecExitLegs).                 *)

\* C36: exit_strategy marks the trade CLOSED and returns True only if
\* every entry leg has a filled reversing order of the leg's quantity.
C36_ClosedMeansEveryLegReversed ==
    (xs_status = "CLOSED" \/ \E c \in ExitCallers : xs_ret[c] = "True") =>
        \A l \in ExitLegIds : xs_filled[l] = ExitEntryLegs[l].filled_qty

\* C37: of two exit_strategy calls for the same OPEN trade at most one
\* places reversing orders, and once both have returned exactly one of them
\* has returned True.
C37_OneExitPerTrade ==
    /\ Cardinality({c \in ExitCallers : xs_orders[c] # {}}) <= 1
    /\ (\A c \in ExitCallers : xs_pc[c] = "done") =>
            Cardinality({c \in ExitCallers : xs_ret[c] = "True"}) = 1

-----------------------------------------------------------------------------
(* Properties of the RiskManager circuit breaker (SpecBreaker).            *)

\* C38: after activate_circuit_breaker on one instance the breaker is
\* active on every instance, and after deactivate_circuit_breaker on any
\* instance, a freshly constructed one included, it is active on none.
C38_BreakerRoundTrips ==
    /\ br_last.op = "activate" =>
            \A i \in br_made : is_circuit_breaker_active(i)
    /\ br_last.op = "deactivate" =>
            \A i \in br_made : ~is_circuit_breaker_active(i)

-----------------------------------------------------------------------------
(* Properties of the execute-strategy request (SpecOrch).                  *)

\* C5: in every trade OrderOrchestrator.execute_strategy persisted as OPEN
\* from the builder's legs, each bought (hedge) leg filled no later than each
\* sold (core) leg: h.fill_time <= c.fill_time.
C5_HedgesFillBeforeCores ==
    \A t \in TradeIds :
        trades[t] = "OPEN" =>
            \A i, j \in 1..Len(trade_legs[t]) :
                (trade_legs[t][i].side = "BUY" /\ trade_legs[t][j].side = "SELL") =>
                    trade_legs[t][i].fill_time <= trade_legs[t][j].fill_time

\* C7: while the circuit breaker is active (the request's RiskManager flag is
\* set, or circuit_breaker_active = 'true' is persisted), no step moves a
\* trade to status OPEN.
C7_NoOpenWhileBreakerActive ==
    [][ (rm_active \/ state_cb = "true") =>
            \A t \in TradeIds : trades'[t] = "OPEN" => trades[t] = "OPEN" ]_vars

\* The lifecycle the trade status is to follow.
Lifecycle ==
    {<<"none", "PENDING">>, <<"PENDING", "OPEN">>, <<"PENDING", "FAILED">>,
     <<"OPEN", "CLOSING">>, <<"CLOSING", "CLOSED">>}

\* C11: a trade's persisted status only moves along Pending -> Open ->
\* Closing -> Closed or Pending -> Failed; no status is revisited and a trade
\* that reached Open, Closed or Failed is never set back or to Failed.
C11_StatusFollowsLifecycle ==
    [][ \A t \in TradeIds :
            trades'[t] # trades[t] => <<trades[t], trades'[t]>> \in Lifecycle ]_vars

\* C12: exit_strategy on a trade that is not OPEN (or on an unknown id)
\* returns False, places no order and leaves the trade rows and the saved
\* legs as they were.
C12_ExitOfNonOpenIsNoOp ==
    [][ \A t \in TradeIds :
            (ExitStrategy(t) /\ trades[t] # "OPEN") =>
                /\ exit_call' = <<t, FALSE, 0>>
                /\ trades' = trades
                /\ trade_legs' = trade_legs
                /\ exposure' = exposure ]_vars

\* C12's case: exit_strategy was called on a FAILED trade that has saved
\* legs, and returned False.
C12_Witness ==
    /\ exit_call # <<>>
    /\ exit_call[2] = FALSE
    /\ trades[exit_call[1]] = "FAILED"
    /\ trade_legs[exit_call[1]] # <<>>

\* C13: every execute_strategy call gets a trade id that no earlier call
\* got, so each call creates a trade row of its own.
C13_FreshTradeIdPerCall ==
    [][ OrchCreateTrade => trades[clock] = "none" ]_vars

\* C14: when OrderOrchestrator.execute_strategy has returned None, the trade
\* is recorded FAILED and no leg of the call is left filled and unreversed.
C14_FailedMeansFlat ==
    (reqPc = "idle" /\ last_ret = "None") =>
        /\ trades[req_trade_id] = "FAILED"
        /\ exposure = {}

-----------------------------------------------------------------------------
(* Properties of CircuitBreaker (SpecCB).                                  *)

\* C8: a restart leaves the breaker's state as it was: the instance built
\* over the same store has the same consecutive-loss count, peak capital,
\* tripped flag, trip-until time and daily slippage-event count.
C8_StateSurvivesRestart ==
    [][ Restart =>
            /\ consecutive_losses' = consecutive_losses
            /\ peak_capital' = peak_capital
            /\ breaker_triggered' = breaker_triggered
            /\ breaker_until' = breaker_until
            /\ daily_slippage_events' = daily_slippage_events ]_vars

\* C9 (as the code has it): on a tripped breaker, is_active() called no later
\* than breaker_until reports active and leaves flag and deadline alone;
\* called after breaker_until while the kill-switch file is absent, it
\* reports inactive and clears the flag and the deadline.
C9_ActiveUntilDeadlineThenCleared ==
    [][ (IsActive /\ breaker_triggered) =>
            /\ now <= breaker_until =>
                   /\ is_active_ret' = "active"
                   /\ breaker_triggered'
                   /\ breaker_until' = breaker_until
            /\ (now > breaker_until /\ ~kill_switch) =>
                   /\ is_active_ret' = "expired"
                   /\ ~breaker_triggered'
                   /\ breaker_until' = None ]_vars

\* C9's case: a call made after the deadline took the cooldown-expired
\* branch and cleared the trip.
C9_Witness ==
    /\ is_active_ret = "expired"
    /\ ~breaker_triggered
    /\ breaker_until = None
    /\ now > COOL_DOWN_PERIOD

\* C9 as stated: the first is_active() call after breaker_until on a tripped
\* breaker reports inactive and clears the flag and the deadline, whatever
\* else holds.
C9_FalseOnFirstCallAfterDeadline ==
    [][ (IsActive /\ breaker_triggered /\ now > breaker_until) =>
            /\ is_active_ret' = "expired"
            /\ ~breaker_triggered'
            /\ breaker_until' = None ]_vars

\* C10: the consecutive-loss counter never exceeds the configured maximum by
\* more than the one trade that tripped the breaker.
C10_LossCounterBounded ==
    consecutive_losses <= MAX_CONSECUTIVE_LOSSES + 1

-----------------------------------------------------------------------------
(* The specifications.                                                     *)

\* What the steps of one part leave alone: the variables of the others.
notExec == <<orchVars, cbVars, rmVars, vetoVars, limVars, flVars, poVars,
             slVars, sdVars, smVars, gkVars, wsVars, rgVars, bdVars, xsVars,
             brVars>>
notOrch == <<execVars, cbVars, rmVars, vetoVars, limVars, flVars, poVars,
             slVars, sdVars, smVars, gkVars, wsVars, rgVars, bdVars, xsVars,
             brVars>>
notCB == <<execVars, orchVars, rmVars, vetoVars, limVars, flVars, poVars,
           slVars, sdVars, smVars, gkVars, wsVars, rgVars, bdVars, xsVars,
           brVars>>
notRm == <<execVars, orchVars, cbVars, vetoVars, limVars, flVars, poVars,
           slVars, sdVars, smVars, gkVars, wsVars, rgVars, bdVars, xsVars,
           brVars>>
notVeto == <<execVars, orchVars, cbVars, rmVars, limVars, flVars, poVars,
             slVars, sdVars, smVars, gkVars, wsVars, rgVars, bdVars, xsVars,
             brVars>>
notLim == <<execVars, orchVars, cbVars, rmVars, vetoVars, flVars, poVars,
            slVars, sdVars, smVars, gkVars, wsVars, rgVars, bdVars, xsVars,
            brVars>>
notFl == <<execVars, orchVars, cbVars, rmVars, vetoVars, limVars, poVars,
           slVars, sdVars, smVars, gkVars, wsVars, rgVars, bdVars, xsVars,
           brVars>>
notPo == <<execVars, orchVars, cbVars, rmVars, vetoVars, limVars, flVars,
           slVars, sdVars, smVars, gkVars, wsVars, rgVars, bdVars, xsVars,
           brVars>>
notSl == <<execVars, orchVars, cbVars, rmVars, vetoVars, limVars, flVars,
           poVars, sdVars, smVars, gkVars, wsVars, rgVars, bdVars, xsVars,
           brVars>>
notSd == <<execVars, orchVars, cbVars, rmVars, vetoVars, limVars, flVars,
           poVars, slVars, smVars, gkVars, wsVars, rgVars, bdVars, xsVars,
           brVars>>
notCBSd == <<execVars, orchVars, rmVars, vetoVars, limVars, flVars, poVars,
             slVars, smVars, gkVars, wsVars, rgVars, bdVars, xsVars, brVars>>
notSm == <<execVars, orchVars, cbVars, rmVars, vetoVars, limVars, flVars,
           poVars, slVars, sdVars, gkVars, wsVars, rgVars, bdVars, xsVars,
           brVars>>
notGk == <<execVars, orchVars, cbVars, rmVars, vetoVars, limVars, flVars,
           poVars, slVars, sdVars, smVars, wsVars, rgVars, bdVars, xsVars,
           brVars>>
notWs == <<execVars, orchVars, cbVars, rmVars, vetoVars, limVars, flVars,
           poVars, slVars, sdVars, smVars, gkVars, rgVars, bdVars, xsVars,
           brVars>>
notRg == <<execVars, orchVars, cbVars, rmVars, vetoVars, limVars, flVars,
           poVars, slVars, sdVars, smVars, gkVars, wsVars, bdVars, xsVars,
           brVars>>
notBd == <<execVars, orchVars, cbVars, rmVars, vetoVars, limVars, flVars,
           poVars, slVars, sdVars, smVars, gkVars, wsVars, rgVars, xsVars,
           brVars>>
notXs == <<execVars, orchVars, cbVars, rmVars, vetoVars, limVars, flVars,
           poVars, slVars, sdVars, smVars, gkVars, wsVars, rgVars, bdVars,
           brVars>>
notBr == <<execVars, orchVars, cbVars, rmVars, vetoVars, limVars, flVars,
           poVars, slVars, sdVars, smVars, gkVars, wsVars, rgVars, bdVars,
           xsVars>>

Init == ExecInit /\ OrchInit /\ CBInit /\ RmInit /\ VetoInit /\ LimInit /\ FlInit /\ PoInit /\ SlInit /\ SdInit /\ SmInit /\ GkInit /\ WsInit /\ RgInit /\ BdInit /\ XsInit /\ BrInit

ExecNext ==
    \/ Preflight /\ UNCHANGED notExec
    \/ \E l \in Legs : Phase1Yield(l) /\ UNCHANGED <<preflight, notExec>>
    \/ \E l \in Legs : Phase2Yield(l) /\ UNCHANGED <<preflight, notExec>>
    \/ ExecutorExit /\ UNCHANGED <<preflight, notExec>>
    \/ FlattenLeg /\ UNCHANGED <<preflight, notExec>>
    \/ \E l \in Legs : WPlace(l) /\ UNCHANGED <<preflight, notExec>>
    \/ \E l \in Legs : WPoll(l) /\ UNCHANGED <<preflight, notExec>>
    \/ \E l \in Legs : WTimeout(l) /\ UNCHANGED <<preflight, notExec>>
    \/ \E l \in Legs : WFinal(l) /\ UNCHANGED <<preflight, notExec>>
    \/ \E l \in Legs : BrokerFill(l) /\ UNCHANGED <<preflight, notExec>>
    \/ \E l \in Legs : BrokerReject(l) /\ UNCHANGED <<preflight, notExec>>

SpecExec == Init /\ [][ExecNext]_vars

OrchNext ==
    \/ ClockTick /\ UNCHANGED notOrch
    \/ ApiExecuteStrategy /\ UNCHANGED notOrch
    \/ ApiActivateCircuitBreaker /\ UNCHANGED notOrch
    \/ OrchCreateTrade /\ UNCHANGED notOrch
    \/ OrchExecuteLeg /\ UNCHANGED notOrch
    \/ OrchFail /\ UNCHANGED notOrch
    \/ OrchOpen /\ UNCHANGED notOrch
    \/ \E t \in TradeIds : ExitStrategy(t) /\ UNCHANGED notOrch

SpecOrch == Init /\ [][OrchNext]_vars

\* Entries followed by exits: the request model with the number of
\* execute-strategy requests held to MaxEntriesBeforeExit.
ExitNext ==
    \/ ClockTick /\ UNCHANGED notOrch
    \/ (nreq < MaxEntriesBeforeExit /\ ApiExecuteStrategy) /\ UNCHANGED notOrch
    \/ OrchCreateTrade /\ UNCHANGED notOrch
    \/ OrchExecuteLeg /\ UNCHANGED notOrch
    \/ OrchFail /\ UNCHANGED notOrch
    \/ OrchOpen /\ UNCHANGED notOrch
    \/ \E t \in TradeIds : ExitStrategy(t) /\ UNCHANGED notOrch

SpecExit == Init /\ [][ExitNext]_vars

RmNext ==
    \/ RmActivate /\ UNCHANGED notRm
    \/ RmDeactivate /\ UNCHANGED notRm
    \/ RmValidateTrade /\ UNCHANGED notRm

SpecValidate == Init /\ [][RmNext]_vars

VetoNext ==
    \/ CalendarPublish /\ UNCHANGED notVeto
    \/ CheckVetoEvents /\ UNCHANGED notVeto

SpecVeto == Init /\ [][VetoNext]_vars

LimNext ==
    \/ LimTick /\ UNCHANGED notLim
    \/ LimValidate /\ UNCHANGED notLim
    \/ LimExecute /\ UNCHANGED notLim
    \/ LimExit /\ UNCHANGED notLim

SpecLimits == Init /\ [][LimNext]_vars

FlNext ==
    \/ FlCall /\ UNCHANGED notFl
    \/ FlLegHead /\ UNCHANGED notFl
    \/ FlMarketTry /\ UNCHANGED notFl
    \/ FlLimitTry /\ UNCHANGED notFl
    \/ FlGiveUp /\ UNCHANGED notFl

\* The thread that runs _flatten_legs keeps running: its sleeps end and its
\* broker calls return or raise.
SpecFlatten == Init /\ [][FlNext]_vars /\ WF_vars(FlThread /\ UNCHANGED notFl)

PoNext ==
    \/ PoCall /\ UNCHANGED notPo
    \/ PoAttempt /\ UNCHANGED notPo
    \/ PoReturn /\ UNCHANGED notPo

SpecPlace == Init /\ [][PoNext]_vars

SlNext ==
    \/ SlAcceptComplete /\ UNCHANGED notSl
    \/ SlAcceptAfterTimeout /\ UNCHANGED notSl
    \/ SlAcceptOrchestrator /\ UNCHANGED notSl

SpecSlippage == Init /\ [][SlNext]_vars

SdNext ==
    \/ CBTick /\ UNCHANGED notCB
    \/ SdRestart /\ UNCHANGED notCBSd
    \/ SdRecordSlippageEvent /\ UNCHANGED notCBSd

SpecSlipDay == Init /\ [][SdNext]_vars

SmNext ==
    \/ \E t \in SmThreads : SmValidateSession(t) /\ UNCHANGED notSm
    \/ SmEndpointRefresh /\ UNCHANGED notSm
    \/ \E t \in SmThreads : SmRefreshPost(t) /\ UNCHANGED notSm
    \/ \E t \in SmThreads : SmRefreshGranted(t) /\ UNCHANGED notSm
    \/ \E t \in SmThreads : SmRefreshRefused(t) /\ UNCHANGED notSm
    \/ \E t \in SmThreads : SmWriteAccess(t) /\ UNCHANGED notSm
    \/ \E t \in SmThreads : SmWriteRefresh(t) /\ UNCHANGED notSm
    \/ \E t \in SmWorkers : SmReadToken(t) /\ UNCHANGED notSm

SpecSession == Init /\ [][SmNext]_vars

GkNext ==
    \/ GkTick /\ UNCHANGED notGk
    \/ GkProcessInstrument /\ UNCHANGED notGk
    \/ GkGetPositionGreeks /\ UNCHANGED notGk
    \/ GkPortfolioStart /\ UNCHANGED notGk
    \/ GkPortfolioLeg /\ UNCHANGED notGk

SpecGreeks == Init /\ [][GkNext]_vars

WsThread ==
    WsReadKeys \/ WsCreate \/ WsOnOpen \/ WsLeaveHold \/ WsBackoffOver

WsNext ==
    \/ WsReadKeys /\ UNCHANGED notWs
    \/ WsCreate /\ UNCHANGED notWs
    \/ WsOnOpen /\ UNCHANGED notWs
    \/ WsConnectFails /\ UNCHANGED notWs
    \/ WsOnClose /\ UNCHANGED notWs
    \/ WsLeaveHold /\ UNCHANGED notWs
    \/ WsBackoffOver /\ UNCHANGED notWs
    \/ UpdateSubscriptions /\ UNCHANGED notWs
    \/ UpdateForceReconnect /\ UNCHANGED notWs

\* The LiveGreeks-WS thread and the caller of update_subscriptions keep
\* running, and a connection attempt that can succeed eventually does.
SpecSubscriptions ==
    /\ Init
    /\ [][WsNext]_vars
    /\ WF_vars(WsThread /\ UNCHANGED notWs)
    /\ SF_vars(WsOnOpen /\ UNCHANGED notWs)
    /\ WF_vars(UpdateForceReconnect /\ UNCHANGED notWs)

RgNext ==
    \/ RgDynamicWeights /\ UNCHANGED notRg
    \/ RgScoreAndMandate /\ UNCHANGED notRg
    \/ RgGenerateMandate /\ UNCHANGED notRg
    \/ RgReturn /\ UNCHANGED notRg

SpecRegime == Init /\ [][RgNext]_vars

BdNext ==
    \/ BdGenerate /\ UNCHANGED notBd
    \/ BdBuildStrategy /\ UNCHANGED notBd
    \/ BdReturn /\ UNCHANGED notBd

SpecBuild == Init /\ [][BdNext]_vars

XsNext ==
    \/ \E c \in ExitCallers : XsCall(c) /\ UNCHANGED notXs
    \/ \E c \in ExitCallers : XsExitLeg(c) /\ UNCHANGED notXs
    \/ \E c \in ExitCallers : XsUpdate(c) /\ UNCHANGED notXs

SpecExitLegs == Init /\ [][XsNext]_vars

BrNext ==
    \/ \E i \in BrInstances : BrNew(i) /\ UNCHANGED notBr
    \/ \E i \in BrInstances : BrActivate(i) /\ UNCHANGED notBr
    \/ \E i \in BrInstances : BrDeactivate(i) /\ UNCHANGED notBr

SpecBreaker == Init /\ [][BrNext]_vars

CBNext ==
    \/ CBTick /\ UNCHANGED notCB
    \/ KillSwitchToggle /\ UNCHANGED notCB
    \/ Restart /\ UNCHANGED notCB
    \/ \E c \in Capitals : UpdateCapital(c) /\ UNCHANGED notCB
    \/ \E p \in DailyPnls : CheckDailyLossLimit(p) /\ UNCHANGED notCB
    \/ RecordSlippageEvent /\ UNCHANGED notCB
    \/ \E p \in TradePnls : RecordTradeResult(p) /\ UNCHANGED notCB
    \/ IsActive /\ UNCHANGED notCB
    \/ Reset /\ UNCHANGED notCB

SpecCB == Init /\ [][CBNext]_vars

====
